---- MODULE Spec2Model ----
(***************************************************************************)
(* A model of the translation engine of jianpu-ly.py: the per-score state  *)
(* of NoteheadMarkup (bar position, time signature, beams, accidentals,    *)
(* tuplet ratio) and the token loop of getLY (repeat stack, tuplets, final *)
(* checks).  process_input renders every part twice from the same text,    *)
(* first with midi = False (the jianpu glyph staff) and then with          *)
(* midi = True (the performance staff); the model runs those renderings in *)
(* lock step over one token stream, nm[r] being the state of rendering r.  *)
(***************************************************************************)
EXTENDS Integers, Sequences, FiniteSets, TLC

(***************************************************************************)
(* Exact rationals (Python's fractions.Fraction): <<n, d>> with d > 0 and  *)
(* gcd(n, d) = 1, so that equal rationals are equal values.                *)
(***************************************************************************)
Abs(n) == IF n < 0 THEN 0 - n ELSE n

RECURSIVE GCD(_, _)
GCD(a, b) == IF b = 0 THEN a ELSE GCD(b, a % b)

F(n, d) ==
    LET g == GCD(Abs(n), Abs(d))
        s == IF d < 0 THEN 0 - 1 ELSE 1
    IN  << (s * n) \div g, (s * d) \div g >>

FInt(n) == << n, 1 >>
FAdd(a, b) == F(a[1] * b[2] + b[1] * a[2], a[2] * b[2])
FSub(a, b) == F(a[1] * b[2] - b[1] * a[2], a[2] * b[2])
FMul(a, b) == F(a[1] * b[1], a[2] * b[2])
FDiv(a, b) == F(a[1] * b[2], a[2] * b[1])
FLt(a, b) == a[1] * b[2] < b[1] * a[2]
FLe(a, b) == a[1] * b[2] <= b[1] * a[2]
FFloor(a) == a[1] \div a[2]
\* Fraction.__mod__ by a positive integer m: a - m * floor(a / m)
FMod(a, m) == FSub(a, FInt(m * FFloor(FDiv(a, FInt(m)))))
FZero == FInt(0)


(***************************************************************************)
(* Small helpers on sequences of characters (Python strings).              *)
(***************************************************************************)
Range(s) == { s[i] : i \in 1..Len(s) }
Min(a, b) == IF a < b THEN a ELSE b

\* "1" <= figure <= "7"
IsDegree(c) == c \in {"1", "2", "3", "4", "5", "6", "7"}

\* int(figure) for a scale degree
DegreeOf(c) ==
    CASE c = "1" -> 1 [] c = "2" -> 2 [] c = "3" -> 3 [] c = "4" -> 4
      [] c = "5" -> 5 [] c = "6" -> 6 [] c = "7" -> 7

\* the keys of the placeholders table
PlaceholderKeys == {"0", "1", "2", "3", "4", "5", "6", "7", "-"}

\* nBeams of a note token without a length marker (parseNote returns None)
None == 0 - 1

\* the third value of inBeamGroup, "restHack" (the others are 0 and 1)
restHack == 2

\* The renderings of one part: process_input calls getLY with midi = False
\* and then with midi = True.
Renderings == {"glyph", "midi"}
midi(r) == r = "midi"
western(r) == FALSE

(***************************************************************************)
(* addOctaves: an octave string is a run of ' or a run of , and is         *)
(* modelled by its signed length (' counts +1, "," counts -1); octave1 is  *)
(* the sequence of marks to apply, one at a time, as the loop does.        *)
(***************************************************************************)
RECURSIVE addOctaves(_, _)
addOctaves(octave1, octave2) ==
    IF octave1 = << >> THEN octave2
    ELSE IF Head(octave1) \in {"'", ">"}
         THEN addOctaves(Tail(octave1), octave2 + 1)
         ELSE addOctaves(Tail(octave1), octave2 - 1)

(***************************************************************************)
(* NoteheadMarkup.initOneScore, with the locals of getLY (repeatStack) and *)
(* the global not_angka, which process_input clears before each rendering. *)
(* err is "" while the rendering runs, "ok" once getLY has returned, and   *)
(* otherwise the message of the errExit (or the name of the uncaught       *)
(* exception) that ended it.  toAdd, leftBeams, rightBeams, beamsSet,      *)
(* placeholder_chord, inRestHack and aftrlast0 hold what the last call of  *)
(* __call__ computed and emitted (aftrlast0: it returned the "] " that     *)
(* closes the beam group after the note before).                           *)
(***************************************************************************)
initOneScore ==
    [ barLength |-> 64, beatLength |-> 16,
      barPos |-> FZero, startBarPos |-> FZero,
      inBeamGroup |-> 0, lastNBeams |-> 0, keepLength |-> 0,
      last_octave |-> 0, base_octave |-> 0, last_accidental |-> "",
      current_accidentals |-> << >>,
      barNo |-> 1, tuplet |-> << 1, 1 >>,
      last_figures |-> << >>, last_was_rest |-> FALSE,
      not_angka |-> FALSE,
      repeatStack |-> << >>,
      toAdd |-> FZero, leftBeams |-> 0, rightBeams |-> 0, beamsSet |-> FALSE,
      placeholder_chord |-> "", inRestHack |-> FALSE, aftrlast0 |-> FALSE,
      err |-> "" ]

\* errExit / an uncaught exception: the rendering stops where it is
errExit(self, msg) == [self EXCEPT !.err = msg]

(***************************************************************************)
(* NoteheadMarkup.setTime and setAnac, and process_time_signature.         *)
(***************************************************************************)
setTime(self, num, denom) ==
    [self EXCEPT !.barLength = (64 * num) \div denom,
                 !.beatLength = IF denom > 4 /\ num % 3 = 0 THEN 24 ELSE 16]

\* setAnac that refuses an anacrusis as long as the bar
setAnac_Strict(self, denom, dotted) ==
    LET p1 == FSub(FInt(self.barLength), F(64, denom))
        p2 == IF dotted THEN FSub(p1, F(64, 2 * denom)) ELSE p1
    IN  IF FLe(p2, FZero)
        THEN errExit([self EXCEPT !.barPos = p2], "Anacrusis is longer than bar")
        ELSE [self EXCEPT !.barPos = p2, !.startBarPos = p2]

setAnac(self, denom, dotted) ==
    LET p1 == FSub(FInt(self.barLength), F(64, denom))
        p2 == IF dotted THEN FSub(p1, F(64, 2 * denom)) ELSE p1
    IN  IF FLt(p2, FZero)
        THEN errExit([self EXCEPT !.barPos = p2], "Anacrusis is longer than bar")
        ELSE [self EXCEPT !.barPos = p2, !.startBarPos = p2]

\* anac = 0 stands for a time signature without the ",anacrusis" part
process_time_signature(self, num, denom, anac, dotted) ==
    LET s1 == setTime(self, num, denom)
    IN  IF anac # 0 THEN setAnac(s1, anac, dotted) ELSE s1

(***************************************************************************)
(* NoteheadMarkup.__call__, in the order of the source.  figures is the    *)
(* sequence of figure characters, nBeams a beam count or None, dots the    *)
(* number of dots, octave the sequence of the token's octave marks and     *)
(* accidental "", "#" or "b".  hasLyrics and staff are the global           *)
(* has_lyrics and self.withStaff; r is the rendering (the globals midi and *)
(* western).                                                               *)
(***************************************************************************)

\* get_placeholder_chord looks every figure of a chord up in placeholders
\* unless the rendering is the glyph one; a single figure is always looked up
PlaceholderKeyError(r, figs) ==
    /\ \E i \in 1..Len(figs) : figs[i] \notin PlaceholderKeys
    /\ Len(figs) = 1 \/ midi(r) \/ western(r)

\* names[f] for the figures of the note before a dash: names has the keys
\* of placeholders, and in angka mode the figures end with the accidental
NameKeyError(figs) == \E i \in 1..Len(figs) : figs[i] \notin PlaceholderKeys

\* the placeholders table
placeholders(f) ==
    CASE f = "0" -> "r" [] f = "1" -> "c" [] f = "2" -> "d" [] f = "3" -> "e"
      [] f = "4" -> "f" [] f = "5" -> "g" [] f = "6" -> "a" [] f = "7" -> "b"
      [] f = "-" -> "r"

\* get_placeholder_chord; "<>" stands for the chord "< ... >" of the
\* performance rendering
get_placeholder_chord(r, figures) ==
    IF Len(figures) = 1 THEN placeholders(figures[1])
    ELSE IF ~midi(r) /\ ~western(r) THEN "c" ELSE "<>"

\* short rests are not implemented as notes (the option --noRestHack)
use_rest_hack_Off == FALSE

\* short rests are implemented as notes
use_rest_hack == TRUE

\* placeholder_chord == "r"
PlaceholderIsRest(figs) == Len(figs) = 1 /\ figs[1] \in {"0", "-"}

\* self.current_accidentals[octave], created with 7 empty slots when missing
AccidentalsOf(table, octave) ==
    IF octave \in DOMAIN table THEN table[octave] ELSE [i \in 1..7 |-> ""]

\* lines 713-721: a crotchet halved once per beam, then half of the previous
\* increment added for each dot
RECURSIVE Halve(_, _)
Halve(toAdd, b) == IF b <= 0 THEN toAdd ELSE Halve(FDiv(toAdd, FInt(2)), b - 1)

\* dots that each add half of the running total instead
RECURSIVE AddDots_Compound(_, _, _)
AddDots_Compound(toAdd, toAdd0, dots) ==
    IF dots = 0 THEN toAdd
    ELSE AddDots_Compound(FAdd(toAdd, FDiv(toAdd, FInt(2))), toAdd0, dots - 1)

RECURSIVE AddDots(_, _, _)
AddDots(toAdd, toAdd0, dots) ==
    IF dots = 0 THEN toAdd
    ELSE AddDots(FAdd(toAdd, FDiv(toAdd0, FInt(2))), FDiv(toAdd0, FInt(2)), dots - 1)

\* lines 713-724
NoteLength(nBeams, dots, tuplet) ==
    LET base == Halve(FInt(16), nBeams)
        toAdd == AddDots(base, base, dots)
    IN  IF tuplet[1] # tuplet[2]
        THEN FDiv(FMul(toAdd, FInt(tuplet[1])), FInt(tuplet[2]))
        ELSE toAdd

\* a left count that is the previous note's count whenever a group is open
LeftBeams_Previous(figures, accidental, slots, nBeams, lastNBeams, inBeamGroup) ==
    IF \/ figures = << "-" >>
       \/ /\ \A i \in 1..Len(figures) :
                /\ IsDegree(figures[i])
                /\ accidental # slots[DegreeOf(figures[i])]
          /\ nBeams > lastNBeams
    THEN nBeams
    ELSE IF inBeamGroup # 0 THEN lastNBeams ELSE 0

\* lines 686-703: stemLeftBeamCount before the angka override
LeftBeams(figures, accidental, slots, nBeams, lastNBeams, inBeamGroup) ==
    IF \/ figures = << "-" >>
       \/ /\ \A i \in 1..Len(figures) :
                /\ IsDegree(figures[i])
                /\ accidental # slots[DegreeOf(figures[i])]
          /\ nBeams > lastNBeams
    THEN nBeams
    ELSE IF inBeamGroup # 0
         THEN (IF nBeams < lastNBeams THEN nBeams ELSE lastNBeams)
         ELSE 0

\* lines 736-741: every scale degree of the note takes the note's accidental
SetAccidentals(slots, figures, accidental) ==
    [i \in 1..7 |->
        IF \E k \in 1..Len(figures) :
              IsDegree(figures[k]) /\ DegreeOf(figures[k]) = i
        THEN accidental ELSE slots[i]]

\* Advance without the bar check of lines 819-833
Advance_NoBarCheck(self, toAdd, nBeams, inRestHack) ==
    LET pos == FAdd(self.barPos, toAdd)
    IN  [self EXCEPT !.barPos = IF pos = FInt(self.barLength) THEN FZero ELSE pos,
                     !.toAdd = toAdd,
                     !.lastNBeams = nBeams,
                     !.barNo = IF pos = FInt(self.barLength)
                               THEN self.barNo + 1 ELSE self.barNo]

\* Advance that wraps barPos but forgets the new bar's number and accidentals
Advance_NoNewBar(self, toAdd, nBeams, inRestHack) ==
    LET pos == FAdd(self.barPos, toAdd)
        s1 == [self EXCEPT !.barPos = pos, !.toAdd = toAdd, !.lastNBeams = nBeams]
    IN  IF FLt(FInt(self.barLength), pos) THEN errExit(s1, "barcheck fail")
        ELSE IF pos = FInt(self.barLength) THEN [s1 EXCEPT !.barPos = FZero]
        ELSE s1

\* an advance whose beat-boundary close forgets the beam count of the note
Advance_ResetLast(self, toAdd, nBeams, inRestHack) ==
    LET pos == FAdd(self.barPos, toAdd)
        s1 == [self EXCEPT !.barPos = pos, !.toAdd = toAdd]
    IN  IF FLt(FInt(self.barLength), pos)
        THEN errExit(s1, "barcheck fail")
        ELSE
          LET closes == FMod(pos, self.beatLength) = FZero /\ self.inBeamGroup # 0
              grp == IF closes THEN 0
                     ELSE IF inRestHack /\ self.inBeamGroup # 0
                          THEN restHack
                          ELSE self.inBeamGroup
              s2 == [s1 EXCEPT !.inBeamGroup = grp,
                               !.lastNBeams = IF closes THEN 0 ELSE nBeams]
          IN  IF pos = FInt(self.barLength)
              THEN [s2 EXCEPT !.barPos = FZero,
                              !.barNo = self.barNo + 1,
                              !.current_accidentals = << >>]
              ELSE s2

\* lines 817-862: advance barPos, bar check, beat-boundary close, wrap
Advance(self, toAdd, nBeams, inRestHack) ==
    LET pos == FAdd(self.barPos, toAdd)
        s1 == [self EXCEPT !.barPos = pos, !.toAdd = toAdd]
    IN  IF FLt(FInt(self.barLength), pos)
        THEN errExit(s1, "barcheck fail")
        ELSE
          LET grp == IF FMod(pos, self.beatLength) = FZero /\ self.inBeamGroup # 0
                     THEN 0
                     ELSE IF inRestHack /\ self.inBeamGroup # 0
                          THEN restHack
                          ELSE self.inBeamGroup
              s2 == [s1 EXCEPT !.inBeamGroup = grp, !.lastNBeams = nBeams]
          IN  IF pos = FInt(self.barLength)
              THEN [s2 EXCEPT !.barPos = FZero,
                              !.barNo = self.barNo + 1,
                              !.current_accidentals = << >>]
              ELSE s2

\* the chord checks that let a chord with a rest through
ChordError_RestAllowed(figures, accidental) ==
    IF Len(figures) > 1 /\ accidental # ""
    THEN "Accidentals in chords not yet implemented"
    ELSE ""

\* the scoreError of the chord checks, "" if they pass
ChordError(figures, accidental) ==
    IF Len(figures) > 1 /\ accidental # ""
    THEN "Accidentals in chords not yet implemented"
    ELSE IF Len(figures) > 1 /\ "0" \in Range(figures)
    THEN "Can't have rest in chord"
    ELSE ""

\* an octave check that accepts three levels
OctaveError_ThreeLevels(octave) == octave \notin (0 - 3)..3

\* not octave in [",,", ",", "", "'", "''"]
OctaveError(octave) == octave \notin (0 - 2)..2

\* dashes_as_ties is set
invisTieLast(self, figures) ==
    /\ self.last_figures # << >>
    /\ figures = << "-" >>
    /\ ~self.last_was_rest

\* lines 602-612: the key under which the notehead of a note is looked up
\* in defines_done: the figures, then the accidental when not_angka is set,
\* then the figures of the note before when the note is a dash tied to it
LookupKey(self, figures0, accidental0) ==
    LET figures1 == IF self.not_angka /\ accidental0 # ""
                    THEN Append(figures0, accidental0) ELSE figures0
    IN  IF invisTieLast(self, figures0)
        THEN figures1 \o self.last_figures ELSE figures1

Call(self, r, hasLyrics, staff, figures0, nBeams0, dots, octave0, accidental0) ==
    IF ChordError(figures0, accidental0) # ""
    THEN errExit(self, ChordError(figures0, accidental0))
    ELSE IF PlaceholderKeyError(r, figures0)
    THEN errExit(self, "KeyError")
    ELSE IF figures0 = << >> /\ (midi(r) \/ western(r))
    THEN errExit(self, "AssertionError")
    ELSE
    LET glyph == ~midi(r) /\ ~western(r)
        invisTie == invisTieLast(self, figures0)
        wasRest == \/ figures0 = << "0" >>
                   \/ (figures0 = << "-" >> /\ self.last_was_rest)
        figures == LookupKey(self, figures0, accidental0)
        octave == IF invisTie THEN self.last_octave
                  ELSE addOctaves(octave0, self.base_octave)
        accidental == IF invisTie THEN self.last_accidental ELSE accidental0
        s0 == [self EXCEPT !.last_was_rest = wasRest]
    IN
    IF invisTie /\ NameKeyError(self.last_figures)
    THEN errExit(s0, "KeyError")
    ELSE IF ~invisTie /\ OctaveError(octave)
    THEN errExit(s0, "Can't handle octave")
    ELSE
    LET placeholderRest == IF invisTie THEN PlaceholderIsRest(self.last_figures)
                           ELSE PlaceholderIsRest(figures0)
        lastFigs == IF Len(figures) > 1 /\ figures[1] = "-"
                    THEN Tail(figures) ELSE figures
        slots == AccidentalsOf(self.current_accidentals, octave)
        nBeams == IF nBeams0 = None
                  THEN (IF self.keepLength # 0 THEN self.lastNBeams ELSE 0)
                  ELSE nBeams0
        leftBeams0 == LeftBeams(figures, accidental, slots, nBeams,
                                self.lastNBeams, self.inBeamGroup)
        grp1 == IF nBeams = 0 /\ self.inBeamGroup # 0 THEN 0 ELSE self.inBeamGroup
        toAdd == NoteLength(nBeams, dots, self.tuplet)
        set == nBeams # 0 /\ glyph
        leftBeams == IF set /\ self.not_angka THEN nBeams ELSE leftBeams0
        rightBeams == IF /\ set /\ self.not_angka
                         /\ FMod(FAdd(self.barPos, toAdd), self.beatLength) = FZero
                      THEN 0 ELSE nBeams
        hack == glyph /\ placeholderRest /\ use_rest_hack /\ nBeams # 0
        inRestHack == hack /\ hasLyrics /\ ~staff
        aftrlast0 == \/ nBeams = 0 /\ self.inBeamGroup = 1
                     \/ inRestHack /\ grp1 = 1
        grp2 == IF nBeams # 0 /\ glyph /\ (grp1 = 0 \/ grp1 = restHack \/ inRestHack)
                THEN 1 ELSE grp1
        s1 == [s0 EXCEPT !.last_octave = octave,
                         !.last_figures = lastFigs,
                         !.last_accidental = accidental,
                         !.current_accidentals =
                             (octave :> SetAccidentals(slots, figures, accidental))
                                @@ self.current_accidentals,
                         !.leftBeams = leftBeams,
                         !.rightBeams = rightBeams,
                         !.beamsSet = set,
                         !.placeholder_chord =
                             IF hack THEN "c"
                             ELSE get_placeholder_chord(
                                      r, IF invisTie THEN self.last_figures
                                         ELSE figures0),
                         !.inRestHack = inRestHack,
                         !.aftrlast0 = aftrlast0,
                         !.inBeamGroup = grp2]
    IN  Advance(s1, toAdd, nBeams, inRestHack)

(***************************************************************************)
(* The token handlers of getLY.  A frame of repeatStack is                 *)
(* <<numBraces, oldBarPos, extraRepeats>>; the top of the stack is the     *)
(* last element.                                                           *)
(***************************************************************************)
Top(stack) == stack[Len(stack)]
Pop(stack) == SubSeq(stack, 1, Len(stack) - 1)

\* "R{"
RepeatOpen(self) ==
    [self EXCEPT !.repeatStack = Append(self.repeatStack, << 1, FZero, 0 >>)]

\* "R<times>{"
PercentOpen(self, times) ==
    [self EXCEPT !.repeatStack =
        Append(self.repeatStack, << 1, self.barPos, times - 1 >>)]

\* "A{"
AltOpen(self) ==
    [self EXCEPT !.repeatStack = Append(self.repeatStack, << 2, self.barPos, 0 >>)]

\* while newBarPos < oldBarPos: newBarPos += barLength   (barLength > 0)
RECURSIVE Resync(_, _, _)
Resync(newBarPos, oldBarPos, barLength) ==
    IF FLt(newBarPos, oldBarPos)
    THEN Resync(FAdd(newBarPos, FInt(barLength)), oldBarPos, barLength)
    ELSE newBarPos

\* a close brace that counts the body of a percent repeat once
RepeatClose_Once(self) ==
    IF self.repeatStack = << >> THEN errExit(self, "IndexError")
    ELSE [self EXCEPT !.repeatStack = Pop(self.repeatStack),
                      !.barPos = FMod(self.barPos, self.barLength)]

\* a close brace that takes the oldest frame instead of the newest
RepeatClose_Fifo(self) ==
    IF self.repeatStack = << >> THEN errExit(self, "IndexError")
    ELSE [self EXCEPT !.repeatStack = Tail(self.repeatStack),
                      !.barPos = FMod(self.barPos, self.barLength)]

\* "}": pop of an empty list raises IndexError; with barLength = 0 the
\* while loop never ends when barPos < oldBarPos, and the modulo raises
\* ZeroDivisionError otherwise
RepeatClose(self) ==
    IF self.repeatStack = << >> THEN errExit(self, "IndexError")
    ELSE
    LET oldBarPos == Top(self.repeatStack)[2]
        extraRepeats == Top(self.repeatStack)[3]
        s1 == [self EXCEPT !.repeatStack = Pop(self.repeatStack)]
    IN  IF self.barLength = 0
        THEN (IF FLt(self.barPos, oldBarPos)
              THEN errExit(s1, "hang")
              ELSE errExit(s1, "ZeroDivisionError"))
        ELSE
        LET newBarPos == Resync(self.barPos, oldBarPos, self.barLength)
            len == FSub(newBarPos, oldBarPos)
        IN  [s1 EXCEPT !.barPos =
                FMod(FAdd(self.barPos, FMul(len, FInt(extraRepeats))),
                     self.barLength)]

\* a "|" that rewinds to the start of the bar instead of the saved position
BarToken_ToBarStart(self) ==
    IF self.repeatStack # << >> /\ Top(self.repeatStack)[1] = 2
    THEN [self EXCEPT !.barPos = FZero]
    ELSE self

\* "|": switches to the next ending inside an alternative, and is passed
\* through to the output otherwise
BarToken(self) ==
    IF self.repeatStack # << >> /\ Top(self.repeatStack)[1] = 2
    THEN [self EXCEPT !.barPos = Top(self.repeatStack)[2]]
    ELSE self

\* i = 2; while i < fitIn: i *= 2
RECURSIVE PowerOfTwoFrom(_, _)
PowerOfTwoFrom(i, fitIn) == IF i < fitIn THEN PowerOfTwoFrom(i * 2, fitIn) ELSE i

\* a tuplet open that takes the power-of-two branch for no fit-count
TupletOpen_NeverSesqui(self, fitIn) ==
    [self EXCEPT !.tuplet = << PowerOfTwoFrom(2, fitIn) \div 2, fitIn >>]

\* "<fitIn>["
TupletOpen(self, fitIn) ==
    LET i == PowerOfTwoFrom(2, fitIn)
        num == IF i = fitIn THEN (fitIn * 3) \div 2 ELSE i \div 2
    IN  [self EXCEPT !.tuplet = << num, fitIn >>]

\* a close bracket that leaves the ratio in force
TupletClose_Keep(self) == self

\* "]"
TupletClose(self) == [self EXCEPT !.tuplet = << 1, 1 >>]

\* NoteheadMarkup.baseOctaveChange, called by process_note for the "<" and
\* ">" of a word
baseOctaveChange(self, change) ==
    [self EXCEPT !.base_octave = addOctaves(change, self.base_octave)]

\* parseNote on a word with a character that no note has
Unrecognised(self) == errExit(self, "Unrecognised command")

\* "KeepLength" taken for a word without effect
KeepLength_Off(self) == self

\* "KeepLength"
KeepLength(self) == [self EXCEPT !.keepLength = 1]

\* "angka" / "Indonesian"
Angka(self) == [self EXCEPT !.not_angka = TRUE]

(***************************************************************************)
(* NoteheadMarkup.endScore and the final checks of getLY.  sloppy is       *)
(* whether the environment variable j2ly_sloppy_bars is set.               *)
(***************************************************************************)
\* endScore that accepts any final bar when the score has no anacrusis
endScore_Lenient(self, sloppy) ==
    IF self.barPos = self.startBarPos \/ sloppy \/ self.startBarPos = FZero
    THEN [self EXCEPT !.err = "ok"]
    ELSE errExit(self, "Incomplete bar")

endScore(self, sloppy) ==
    IF self.barPos = self.startBarPos THEN [self EXCEPT !.err = "ok"]
    ELSE IF sloppy THEN [self EXCEPT !.err = "ok"]
    ELSE IF self.startBarPos # FZero /\ self.barPos = FZero
    THEN errExit(self, "should end with a bar to make up for the anacrusis bar")
    ELSE errExit(self, "Incomplete bar")

finalChecks(self, sloppy) ==
    IF self.barPos = FZero /\ self.barNo = 1
    THEN errExit(self, "No jianpu in score")
    ELSE IF self.repeatStack # << >>
    THEN errExit(self, "Unterminated repeat")
    ELSE endScore(self, sloppy)

(***************************************************************************)
(* The state machine.  nm[r] is the state of rendering r and tok the token *)
(* of the score text read last; has_lyrics and withStaff are fixed for the *)
(* run.  body and opened are history variables, kept by the specification  *)
(* of percent repeats only: the tokens read since the last "R<times>{" and *)
(* the renderings' states at that token.  out and lastPtr are getLY's list *)
(* of output words and its index of the last note, kept by the             *)
(* specifications of the tied-note collapser and of the splicing only.     *)
(***************************************************************************)
VARIABLES nm, tok, has_lyrics, withStaff, body, opened, out, lastPtr,
          defines_done, defs, headers, declared,
          inDat, mode, unicode_approx, uText, brackets, afternext

vars == << nm, tok, has_lyrics, withStaff, body, opened, out, lastPtr,
           defines_done, defs, headers, declared,
           inDat, mode, unicode_approx, uText, brackets, afternext >>

\* defines_done is the dictionary of NoteheadMarkup.__init__ (its keys), and
\* defs records, for the call of getLY under way, which of these keys its
\* notes have looked up and how many definitions it has put out for each
registry == << defines_done, defs >>

\* headers is the dictionary that process_input hands from one part of a
\* score to the next, and declared records for each header name the value
\* of its last declaration and the strongest boundary read since ("none",
\* "part" or "score")
headerVars == << headers, declared >>

\* inDat is the text that process_input has still to read, as a list of
\* words, and mode where process_input is: at its "start", in "unicode"
\* mode (get_unicode_approx has called getLY), "returned" from it, or on the
\* "lilypond" path, which the other specifications start on.
\* unicode_approx is the list of NoteheadMarkup and uText the string u that
\* get_unicode_approx returns, as a list of characters.
unicodeVars == << inDat, mode, unicode_approx, uText >>

\* brackets records the tuplet brackets that are open: the ratio that each
\* of them has set, the innermost last
nestVars == << brackets >>

\* afternext of getLY: TRUE when the markup of a grace note waits for the
\* note after it (None otherwise)
spliceVars == << afternext >>

\* what the specifications of the token loop leave alone
others == << registry, headerVars, unicodeVars, nestVars, spliceVars >>

\* Bounds of the model: tokens are read while the score is within its first
\* MaxBars bars and, for an opening brace, while fewer than MaxDepth frames
\* are open
MaxBars == 2
MaxDepth == 2

\* A token of the score text is a tuple: its kind, then its parts
\*   <<"time", num, denom, anac, dotted>>      (anac = 0: no anacrusis)
\*   <<"note", figures, nBeams, dots, octave, accidental>>
\*   <<"R%{", times>>    <<"[", fitIn>>    <<"end", sloppy>>
\*   <<"R{">>  <<"A{">>  <<"}">>  <<"|">>  <<"]">>  <<"KeepLength">>  <<"angka">>
\*   <<"<>", marks>>      a word of "<" and ">" only (a base-octave change)
\*   <<"\\", word>>       a LilyPond command, a dynamic or a text (\p, ^"text")
\*   <<"g[">>  <<"]g">>   grace notes before the next note, after the last note
\*   <<"word">>           a word that is no directive and no note
\* and <<"start">> stands for the beginning of the text.
Kind(t) == t[1]
IsNote(t) == Kind(t) = "note"
FiguresOf(t) == t[2]
BeamsOf(t) == t[3]
DotsOf(t) == t[4]
OctaveOf(t) == t[5]
AccidentalOf(t) == t[6]

\* convert_ties_to_slurs (line 1273) deletes every "|" from the score text
\* before the glyph rendering reads it
Deleted(r, t) == r = "glyph" /\ Kind(t) = "|"

\* the elif chain of getLY's token loop, and the final checks after it
Handle(self, r, t) ==
    CASE Kind(t) = "time" -> process_time_signature(self, t[2], t[3], t[4], t[5])
      [] Kind(t) = "KeepLength" -> KeepLength(self)
      [] Kind(t) = "angka" -> Angka(self)
      [] Kind(t) = "R{" -> RepeatOpen(self)
      [] Kind(t) = "R%{" -> PercentOpen(self, t[2])
      [] Kind(t) = "}" -> RepeatClose(self)
      [] Kind(t) = "A{" -> AltOpen(self)
      [] Kind(t) = "|" -> BarToken(self)
      [] Kind(t) = "[" -> TupletOpen(self, t[2])
      [] Kind(t) = "]" -> TupletClose(self)
      [] Kind(t) = "note" ->
            Call(self, r, has_lyrics, withStaff, FiguresOf(t), BeamsOf(t),
                 DotsOf(t), OctaveOf(t), AccidentalOf(t))
      [] Kind(t) = "<>" -> baseOctaveChange(self, t[2])
      [] Kind(t) \in { "\\", "g[", "]g" } -> self
      [] Kind(t) = "word" -> Unrecognised(self)
      [] Kind(t) = "end" -> finalChecks(self, t[2])

\* a run that goes on after an error
Running_Always(r) == nm[r].err # "ok"

Running(r) == nm[r].err = ""

\* every rendering under way reads token t; errExit ends the whole run, so
\* nothing is read once a rendering has stopped
Step(t) ==
    /\ \A r \in DOMAIN nm : Running(r)
    /\ (\A r \in DOMAIN nm : nm[r].barNo <= MaxBars) \/ Kind(t) = "end"
    /\ nm' = [r \in DOMAIN nm |->
                IF Deleted(r, t) THEN nm[r] ELSE Handle(nm[r], r, t)]
    /\ tok' = t
    /\ UNCHANGED << has_lyrics, withStaff >>

Read(t) == Step(t) /\ UNCHANGED << body, opened, out, lastPtr, others >>

CanOpen == \A r \in DOMAIN nm : Len(nm[r].repeatStack) < MaxDepth

\* The actions: one per kind of token, drawing the token from the given sets
TimeSig(Sigs, Anacs) ==
    \E ts \in Sigs, a \in Anacs : Read(<< "time", ts[1], ts[2], a[1], a[2] >>)

Note(Figs, Beams, Dots, Octs, Accs) ==
    \E f \in Figs, b \in Beams, d \in Dots, o \in Octs, a \in Accs :
        Read(<< "note", f, b, d, o, a >>)

KeepLengthTok == Read(<< "KeepLength" >>)
AngkaTok == Read(<< "angka" >>)
RepeatOpenTok == CanOpen /\ Read(<< "R{" >>)
PercentOpenTok(Times) == CanOpen /\ \E k \in Times : Read(<< "R%{", k >>)
AltOpenTok == CanOpen /\ Read(<< "A{" >>)
RepeatCloseTok == Read(<< "}" >>)
BarTok == Read(<< "|" >>)
TupletOpenTok(FitIns) == \E n \in FitIns : Read(<< "[", n >>)
TupletCloseTok == Read(<< "]" >>)
EndOfScore == \E sl \in BOOLEAN : Read(<< "end", sl >>)

\* One call of getLY: a score without lyrics, rendered without a staff, in
\* one of the renderings
Init ==
    /\ \E r \in Renderings : nm = (r :> initOneScore)
    /\ tok = << "start" >>
    /\ has_lyrics = FALSE
    /\ withStaff = FALSE
    /\ body = << >>
    /\ opened = nm
    /\ out = << >>
    /\ lastPtr = 0
    /\ defines_done = { }
    /\ defs = << << >>, << >> >>
    /\ headers = << >>
    /\ declared = << >>
    /\ inDat = << >>
    /\ mode = "lilypond"
    /\ unicode_approx = << >>
    /\ uText = << >>
    /\ brackets = << >>
    /\ afternext = FALSE

\* The two calls of getLY that process_input makes for a part, run in lock
\* step over the same text
InitPair ==
    /\ nm = [r \in Renderings |-> initOneScore]
    /\ tok = << "start" >>
    /\ has_lyrics = FALSE
    /\ withStaff = FALSE
    /\ body = << >>
    /\ opened = nm
    /\ out = << >>
    /\ lastPtr = 0
    /\ defines_done = { }
    /\ defs = << << >>, << >> >>
    /\ headers = << >>
    /\ declared = << >>
    /\ inDat = << >>
    /\ mode = "lilypond"
    /\ unicode_approx = << >>
    /\ uText = << >>
    /\ brackets = << >>
    /\ afternext = FALSE

(***************************************************************************)
(* Spec: bar accounting.  Time signatures (with anacrusis), notes of       *)
(* several lengths, triplets, and the end of the score.                    *)
(***************************************************************************)
TimeSigs == { << 2, 4 >>, << 6, 8 >>, << 1, 4 >> }
Anacs == { << 0, FALSE >>, << 4, FALSE >>, << 1, FALSE >> }

Next ==
    \/ TimeSig(TimeSigs, Anacs)
    \/ Note({ << "1" >> }, { 0, 1 }, { 0, 1 }, { << >> }, { "" })
    \/ TupletOpenTok({ 3 })
    \/ TupletCloseTok
    \/ EndOfScore

Spec == Init /\ [][Next]_vars

(***************************************************************************)
(* What the claims say, stated without the model's operators.              *)
(***************************************************************************)
RECURSIVE Pow2(_)
Pow2(n) == IF n <= 0 THEN 1 ELSE 2 * Pow2(n - 1)

\* 16 / 2^b * (2 - 1 / 2^d) * num / den
ClaimedLength(b, d, ratio) ==
    F(16 * (2 * Pow2(d) - 1) * ratio[1], Pow2(b) * Pow2(d) * ratio[2])

\* the beam count a note token asks for in state self
Requested(self, t) ==
    IF BeamsOf(t) = None
    THEN (IF self.keepLength # 0 THEN self.lastNBeams ELSE 0)
    ELSE BeamsOf(t)

InBar(self) ==
    /\ FLe(FZero, self.barPos)
    /\ FLe(self.barPos, FInt(self.barLength))

(***************************************************************************)
(* C1 as claimed: barPos is within [0, barLength] in every state, and a    *)
(* state in which it is not is the end of a run that failed with the bar   *)
(* check and with no other error.                                          *)
(***************************************************************************)
C1_AlwaysInBar ==
    \A r \in DOMAIN nm : ~InBar(nm[r]) => nm[r].err = "barcheck fail"

(***************************************************************************)
(* C1 as amended: after every note that is processed without error         *)
(* 0 <= barPos < barLength; a note fails the bar check exactly when its    *)
(* advance takes barPos beyond barLength, and nothing else raises that     *)
(* error.  (Between notes a time signature may leave barPos above the new  *)
(* barLength, and an anacrusis longer than the bar fails with its own      *)
(* error.)                                                                 *)
(***************************************************************************)
C1_InBarAfterNote ==
    \A r \in DOMAIN nm :
        /\ (IsNote(tok) /\ nm[r].err = "")
              => (FLe(FZero, nm[r].barPos) /\ FLt(nm[r].barPos, FInt(nm[r].barLength)))
        /\ (IsNote(tok) /\ nm[r].err \in {"", "barcheck fail"})
              => (nm[r].err = "barcheck fail"
                    <=> FLt(FInt(nm[r].barLength), nm[r].barPos))
        /\ nm[r].err = "barcheck fail" => IsNote(tok)

\* a note has just failed the bar check after a time signature shortened the bar
C1_Witness ==
    \E r \in DOMAIN nm :
        /\ IsNote(tok)
        /\ nm[r].err = "barcheck fail"
        /\ nm[r].barLength = 32
        /\ nm[r].barNo = 1

(***************************************************************************)
(* C2 as claimed, for the note that ends the score: whenever a note        *)
(* completes a bar of a score without anacrusis, so that the score may end *)
(* there, the score without that note fails with "Incomplete bar".         *)
(***************************************************************************)
CompletesScore(r) ==
    /\ IsNote(tok')
    /\ nm[r].startBarPos = FZero
    /\ finalChecks(nm'[r], FALSE).err = "ok"

C2_RemovedNoteIncomplete ==
    [][\A r \in DOMAIN nm :
          CompletesScore(r) => finalChecks(nm[r], FALSE).err = "Incomplete bar"]_vars

(***************************************************************************)
(* C2 as amended: without the sloppy-bars override endScore succeeds if    *)
(* and only if barPos = startBarPos; a score without anacrusis that ends   *)
(* after one or more full bars (barPos = 0, barNo > 1) passes; and the     *)
(* same score without its last note fails with "Incomplete bar" provided   *)
(* that note was not the only note of its bar.                             *)
(***************************************************************************)
ReachedEndScore(self) ==
    self.err \notin {"", "No jianpu in score", "Unterminated repeat"}

C2_AtEnd ==
    \A r \in DOMAIN nm :
        Kind(tok) = "end" =>
          /\ (ReachedEndScore(nm[r]) /\ ~tok[2])
                => (nm[r].err = "ok" <=> nm[r].barPos = nm[r].startBarPos)
          /\ ( /\ nm[r].startBarPos = FZero /\ nm[r].barPos = FZero
               /\ nm[r].barNo > 1 /\ nm[r].repeatStack = << >> )
                => nm[r].err = "ok"

C2_EndOfScore ==
    /\ []C2_AtEnd
    /\ [][\A r \in DOMAIN nm :
            (CompletesScore(r) /\ nm[r].barPos # FZero)
               => finalChecks(nm[r], FALSE).err = "Incomplete bar"]_vars

\* a score of two full bars in 2/4 has ended well
C2_Witness ==
    \E r \in DOMAIN nm :
        /\ Kind(tok) = "end" /\ ~tok[2]
        /\ nm[r].err = "ok"
        /\ nm[r].barLength = 32 /\ nm[r].barNo = 3
        /\ nm[r].startBarPos = FZero

(***************************************************************************)
(* C4: a note whose advance reaches barLength exactly sets barPos to 0,    *)
(* adds one to barNo and empties the accidental table; a note that stays   *)
(* below barLength leaves barNo alone, and the table is not empty after    *)
(* it.                                                                     *)
(***************************************************************************)
C4_BarWrap ==
    [][\A r \in DOMAIN nm :
          (IsNote(tok') /\ nm'[r].err = "")
             => LET reach == FAdd(nm[r].barPos,
                                  ClaimedLength(Requested(nm[r], tok'), DotsOf(tok'),
                                                nm[r].tuplet))
                IN  IF reach = FInt(nm[r].barLength)
                    THEN /\ nm'[r].barPos = FZero
                         /\ nm'[r].barNo = nm[r].barNo + 1
                         /\ nm'[r].current_accidentals = << >>
                    ELSE /\ nm'[r].barPos = reach
                         /\ nm'[r].barNo = nm[r].barNo
                         /\ nm'[r].current_accidentals # << >>]_vars

\* a note has just completed the second bar
C4_Witness ==
    \E r \in DOMAIN nm :
        /\ IsNote(tok) /\ nm[r].err = ""
        /\ nm[r].barPos = FZero /\ nm[r].barNo = 3
        /\ nm[r].current_accidentals = << >>

(***************************************************************************)
(* SpecLength: note lengths.  Notes of every beam and dot count up to two, *)
(* inside and outside triplets.                                            *)
(***************************************************************************)
NextLength ==
    \/ Note({ << "1" >> }, 0..2, 0..2, { << >> }, { "" })
    \/ TupletOpenTok({ 3 })
    \/ TupletCloseTok
    \/ EndOfScore

SpecLength == Init /\ [][NextLength]_vars

(***************************************************************************)
(* C3: a note of b beams and d dots read under tuplet ratio num:den        *)
(* advances barPos by exactly 16/2^b * (2 - 1/2^d) * num/den, an exact     *)
(* rational (barPos going back to 0 when that completes the bar).          *)
(***************************************************************************)
C3_NoteLength ==
    [][\A r \in DOMAIN nm :
          IsNote(tok')
             => LET len == ClaimedLength(Requested(nm[r], tok'), DotsOf(tok'),
                                         nm[r].tuplet)
                    reach == FAdd(nm[r].barPos, len)
                IN  /\ nm'[r].toAdd = len
                    /\ nm'[r].err = ""
                          => nm'[r].barPos = IF reach = FInt(nm[r].barLength)
                                             THEN FZero ELSE reach
                    /\ nm'[r].err # "" => nm'[r].barPos = reach]_vars

\* a double-dotted quaver of a triplet, 14 * 2/3 units long, has been read
C3_Witness ==
    \E r \in DOMAIN nm :
        /\ IsNote(tok) /\ BeamsOf(tok) = 1 /\ DotsOf(tok) = 2
        /\ nm[r].tuplet = << 2, 3 >>
        /\ nm[r].toAdd = << 28, 3 >>
        /\ nm[r].err = ""

(***************************************************************************)
(* SpecTuplet: tuplet ratios.  Crotchets and quavers inside and outside    *)
(* tuplets of 1 to MaxFit notes.                                           *)
(***************************************************************************)
MaxFit == 5

NextTuplet ==
    \/ Note({ << "1" >> }, 0..1, { 0 }, { << >> }, { "" })
    \/ TupletOpenTok(1..MaxFit)
    \/ TupletCloseTok
    \/ EndOfScore

SpecTuplet == Init /\ [][NextTuplet]_vars

(***************************************************************************)
(* C5: "N[" sets the tuplet ratio to num:N with num = floor(3N/2) when N   *)
(* is a power of two and half the smallest power of two >= N otherwise     *)
(* (3 gives 2:3, 4 gives 6:4, 5 gives 4:5), and the notes inside are       *)
(* num/N of their written length.                                          *)
(***************************************************************************)
IsPowerOfTwo(n) == \E k \in 0..n : Pow2(k) = n

SmallestPowerOfTwoFrom(n) ==
    CHOOSE p \in { Pow2(k) : k \in 0..n } :
        p >= n /\ \A q \in { Pow2(k) : k \in 0..n } : q >= n => p <= q

ClaimedNum(n) ==
    IF IsPowerOfTwo(n) THEN (3 * n) \div 2 ELSE SmallestPowerOfTwoFrom(n) \div 2

C5_TupletRatio ==
    [][\A r \in DOMAIN nm :
          /\ Kind(tok') = "["
                => /\ nm'[r].tuplet = << ClaimedNum(tok'[2]), tok'[2] >>
                   /\ tok'[2] = 3 => nm'[r].tuplet = << 2, 3 >>
                   /\ tok'[2] = 4 => nm'[r].tuplet = << 6, 4 >>
                   /\ tok'[2] = 5 => nm'[r].tuplet = << 4, 5 >>
          /\ (IsNote(tok') /\ Kind(tok) = "[")
                => /\ nm'[r].toAdd =
                        FMul(ClaimedLength(BeamsOf(tok'), DotsOf(tok'), << 1, 1 >>),
                             F(ClaimedNum(tok[2]), tok[2]))
                   /\ nm'[r].tuplet = nm[r].tuplet
          /\ (IsNote(tok') /\ IsNote(tok))
                => /\ nm'[r].tuplet = nm[r].tuplet
                   /\ (BeamsOf(tok') = BeamsOf(tok) /\ DotsOf(tok') = DotsOf(tok))
                         => nm'[r].toAdd = nm[r].toAdd]_vars

\* the second crotchet of a "4[" group, 6/4 of 16 units long
C5_Witness ==
    \E r \in DOMAIN nm :
        /\ IsNote(tok) /\ BeamsOf(tok) = 0 /\ DotsOf(tok) = 0
        /\ nm[r].tuplet = << 6, 4 >>
        /\ nm[r].toAdd = << 24, 1 >>
        /\ nm[r].barPos = << 48, 1 >>
        /\ nm[r].err = ""

(***************************************************************************)
(* SpecStack: the repeat stack.  Crotchets in 4/4 with volta repeats,      *)
(* percent repeats, alternatives, close braces and "|".                    *)
(***************************************************************************)
NextStack ==
    \/ Note({ << "1" >> }, { 0 }, { 0 }, { << >> }, { "" })
    \/ RepeatOpenTok
    \/ PercentOpenTok({ 2 })
    \/ AltOpenTok
    \/ RepeatCloseTok
    \/ BarTok
    \/ EndOfScore

SpecStack == Init /\ [][NextStack]_vars

Opens == { "R{", "R%{", "A{" }

PushesOne(self, after) ==
    /\ Len(after.repeatStack) = Len(self.repeatStack) + 1
    /\ Pop(after.repeatStack) = self.repeatStack

C8_Alternative ==
    [][\A r \in DOMAIN nm :
          /\ Kind(tok') = "A{"
                => nm'[r] = [nm[r] EXCEPT !.repeatStack =
                                Append(nm[r].repeatStack, << 2, nm[r].barPos, 0 >>)]
          /\ (Kind(tok') = "|" /\ ~Deleted(r, tok'))
                => IF /\ nm[r].repeatStack # << >>
                      /\ nm[r].repeatStack[Len(nm[r].repeatStack)][1] = 2
                   THEN nm'[r] = [nm[r] EXCEPT !.barPos =
                                     nm[r].repeatStack[Len(nm[r].repeatStack)][2]]
                   ELSE nm'[r] = nm[r]]_vars

\* a "|" has taken the performance rendering, now in its second bar, back to
\* the second beat, where the alternative was opened
C8_Witness ==
    \E r \in DOMAIN nm :
        /\ midi(r)
        /\ Kind(tok) = "|"
        /\ nm[r].repeatStack = << << 2, << 16, 1 >>, 0 >> >>
        /\ nm[r].barPos = << 16, 1 >>
        /\ nm[r].barNo = 2

(***************************************************************************)
(* SpecPair: the two renderings of one part, reading the same text in lock *)
(* step.                                                                   *)
(***************************************************************************)
NextPair ==
    \/ Note({ << "1" >> }, { 0 }, { 0 }, { << >> }, { "" })
    \/ RepeatOpenTok
    \/ AltOpenTok
    \/ RepeatCloseTok
    \/ BarTok
    \/ EndOfScore

SpecPair == InitPair /\ [][NextPair]_vars

(***************************************************************************)
(* C9: the glyph rendering and the performance rendering of the same text  *)
(* are at the same barPos after every token and come to the same verdict.  *)
(***************************************************************************)
C9_SameBarAccounting ==
    /\ nm["glyph"].barPos = nm["midi"].barPos
    /\ nm["glyph"].err = nm["midi"].err

(***************************************************************************)
(* SpecRepeat: percent repeats.  Crotchets and dotted crotchets, before    *)
(* and inside a triplet, with percent repeats of 2 or 3 iterations that    *)
(* are not nested.  body records up to MaxBody tokens of the repeat being  *)
(* read and opened the states in which it was opened; outside a repeat     *)
(* body is empty and opened the states before the last token.              *)
(***************************************************************************)
MaxBody == 2

Recording == \E r \in DOMAIN nm : nm[r].repeatStack # << >>

Rec(t) ==
    /\ Recording => Len(body) < MaxBody
    /\ Step(t)
    /\ body' = IF Recording THEN Append(body, t) ELSE << >>
    /\ opened' = IF Recording THEN opened ELSE nm
    /\ UNCHANGED << out, lastPtr, others >>

RecPercentOpen(Times) ==
    /\ ~Recording
    /\ \E k \in Times : Step(<< "R%{", k >>)
    /\ body' = << >>
    /\ opened' = nm
    /\ UNCHANGED << out, lastPtr, others >>

RecNote(Figs, Beams, Dots, Octs, Accs) ==
    \E f \in Figs, b \in Beams, d \in Dots, o \in Octs, a \in Accs :
        Rec(<< "note", f, b, d, o, a >>)

RecTupletOpen(FitIns) == \E n \in FitIns : Rec(<< "[", n >>)
RecClose == Step(<< "}" >>) /\ UNCHANGED << body, opened, out, lastPtr, others >>

NextRepeat ==
    \/ RecPercentOpen({ 2, 3 })
    \/ RecNote({ << "1" >> }, { 0 }, { 0, 1 }, { << >> }, { "" })
    \/ RecTupletOpen({ 3 })
    \/ RecClose
    \/ EndOfScore

SpecRepeat == Init /\ [][NextRepeat]_vars

\* the token loop of getLY over the tokens toks, from state self
RECURSIVE Replay(_, _, _)
Replay(self, r, toks) ==
    IF toks = << >> \/ self.err # "" THEN self
    ELSE Replay(Handle(self, r, Head(toks)), r, Tail(toks))

RECURSIVE ReplayTimes(_, _, _, _)
ReplayTimes(self, r, toks, n) ==
    IF n = 0 THEN self ELSE ReplayTimes(Replay(self, r, toks), r, toks, n - 1)

\* barPos after the close of a k-fold percent repeat opened at barPos old
ClaimedClose(self, old, k) ==
    LET L == FMod(FSub(self.barPos, old), self.barLength)
    IN  FMod(FAdd(self.barPos, FMul(L, FInt(k - 1))), self.barLength)

NextBeam ==
    \/ Note({ << "1" >> }, 0..2, { 0 }, { << >> }, { "", "#" })
    \/ Note({ << "-" >> }, 0..1, { 0 }, { << >> }, { "" })
    \/ AngkaTok
    \/ EndOfScore

SpecBeam == Init /\ [][NextBeam]_vars

\* rule (a) as the specification words it: a dash, or a pitch whose
\* accidental differs from the table's, and more beams than the last note
WideningRule(self, after, t) ==
    /\ \/ FiguresOf(t) = << "-" >>
       \/ \E i \in 1..Len(after.last_figures) :
             /\ IsDegree(after.last_figures[i])
             /\ after.last_accidental #
                  AccidentalsOf(self.current_accidentals,
                                after.last_octave)[DegreeOf(after.last_figures[i])]
    /\ Requested(self, t) > self.lastNBeams

\* a dash that does not prolong a note: it follows a rest or starts the score
LoneDash(self, t) ==
    /\ FiguresOf(t) = << "-" >>
    /\ self.last_figures = << >> \/ self.last_was_rest

\* rules (b) and (c)
ClaimedLeft(self, t) ==
    IF self.inBeamGroup # 0 THEN Min(Requested(self, t), self.lastNBeams) ELSE 0

C11_WideningRule ==
    [][\A r \in DOMAIN nm :
          (IsNote(tok') /\ r = "glyph" /\ ~nm[r].not_angka /\ nm'[r].err = "")
             => nm'[r].leftBeams =
                   IF WideningRule(nm[r], nm'[r], tok')
                   THEN Requested(nm[r], tok')
                   ELSE ClaimedLeft(nm[r], tok')]_vars

(***************************************************************************)
(* SpecCollapse: the text of the performance rendering and the tied-note   *)
(* collapser.  out is the list of words of the text:                       *)
(*   <<"n", pitch, length, dots>>   a note, pitch = <<figures, accidental, *)
(*                                  octave>>, written pitch+length+dots    *)
(*   <<"r", << >>, length, dots>>   a rest, written "r"+length+dots        *)
(*   <<"~">>                        a tie after the word before it         *)
(*   <<"|">>                        the bar check and bar-number comment   *)
(*   <<"\\time">>                   a time signature                       *)
(* No word in this alphabet carries a tremolo, a slur or a command after a *)
(* tie.                                                                    *)
(***************************************************************************)
MaxWords == 7

\* the text that the note handler returns for token t (ret), self being the
\* state before the token and after the state behind it
NoteWords(self, after, t) ==
    LET bar == IF self.barPos = FZero /\ self.barNo > 1
               THEN << << "|" >> >> ELSE << >>
        figs == IF invisTieLast(self, FiguresOf(t))
                THEN self.last_figures ELSE FiguresOf(t)
        length == 4 * Pow2(BeamsOf(t))
        word == IF PlaceholderIsRest(figs)
                THEN << "r", << >>, length, DotsOf(t) >>
                ELSE << "n", << figs, after.last_accidental, after.last_octave >>,
                        length, DotsOf(t) >>
    IN  bar \o << word >>

InsertAfter(ws, i, w) == SubSeq(ws, 1, i) \o << w >> \o SubSeq(ws, i + 1, Len(ws))

\* b4last of the note handler: the override of the invisible tie, which
\* only the glyph rendering has
b4last(self, r, t) == invisTieLast(self, FiguresOf(t)) /\ ~midi(r) /\ ~western(r)

\* aftrlast0 + aftrlast of the note handler, as one word: "] " when the
\* note closes the group of the note before it, " ~" when it is tied to it;
\* << >> is the empty string
aftrlast(self, after, t) ==
    (IF after.aftrlast0 THEN << "]" >> ELSE << >>)
        \o (IF invisTieLast(self, FiguresOf(t)) THEN << "~" >> ELSE << >>)

\* b + out[lastPtr]
Prepend(ws, ptr, b) == [ws EXCEPT ![ptr] = << "+", b, @ >>]

\* process_note with lastPtr set after afternext has been put out
process_note_PtrAtEnd(ws, ptr, pending, r, self, after, t) ==
    LET o0 == IF b4last(self, r, t) THEN Prepend(ws, ptr, "\\once") ELSE ws
        a == aftrlast(self, after, t)
        o1 == IF a # << >> THEN InsertAfter(o0, ptr, a) ELSE o0
        o2 == o1 \o NoteWords(self, after, t)
        o3 == IF pending THEN Append(o2, << "grace" >>) ELSE o2
    IN  << o3, Len(o3) >>

\* process_note: b4last goes in front of the last note and aftrlast right
\* after it, the new note at the end and the waiting grace markup
\* (afternext) after it; the result is << out, lastPtr >>, and afternext is
\* None afterwards.  ptr counts from 1 (0: no note yet).
process_note(ws, ptr, pending, r, self, after, t) ==
    LET o0 == IF b4last(self, r, t) THEN Prepend(ws, ptr, "\\once") ELSE ws
        a == aftrlast(self, after, t)
        o1 == IF a # << >> THEN InsertAfter(o0, ptr, a) ELSE o0
        o2 == o1 \o NoteWords(self, after, t)
        o3 == IF pending THEN Append(o2, << "grace" >>) ELSE o2
    IN  << o3, Len(o2) >>

IsNoteWord(w) == w[1] = "n"
IsRestWord(w) == w[1] = "r"
Sounds(w) == IsNoteWord(w) \/ IsRestWord(w)
IsTie(w) == w[1] = "~"

\* note_patterns with a dotted crotchet for two crotchets
note_patterns_TwoToDotted ==
    << << 4, 1, 1, 1 >>, << 4, 0, 1, 0 >>, << 3, 0, 2, 1 >>,
       << 2, 1, 2, 1 >>, << 2, 0, 4, 1 >> >>

\* note_patterns with a plain half note for three tied crotchets
note_patterns_ThreeToHalf ==
    << << 4, 1, 1, 1 >>, << 4, 0, 1, 0 >>, << 3, 0, 2, 0 >>,
       << 2, 1, 2, 1 >>, << 2, 0, 2, 0 >> >>

\* note_patterns, in the order of the source:
\* << numNotes, dots of each note, length of the result, dots of the result >>
note_patterns ==
    << << 4, 1, 1, 1 >>, << 4, 0, 1, 0 >>, << 3, 0, 2, 1 >>,
       << 2, 1, 2, 1 >>, << 2, 0, 2, 0 >> >>

\* The regular expression of a pattern matches at word i: a word of length
\* 4 with the pattern's dots and a tie, numNotes - 2 more of them, and a
\* last word that starts with the same name, length 4 and the pattern's
\* dots (the expression ends there, so the last word may go on with dots).
\* The name is anything but a space: a pitch, or the "r" of a rest.
TiedRunAt(ws, i, numNotes, dot) ==
    /\ i + 2 * (numNotes - 1) <= Len(ws)
    /\ Sounds(ws[i])
    /\ \A j \in 0..(numNotes - 1) :
          LET w == ws[i + 2 * j]
          IN  /\ w[1] = ws[i][1]
              /\ w[2] = ws[i][2]
              /\ w[3] = 4
              /\ IF j < numNotes - 1
                 THEN w[4] = dot /\ IsTie(ws[i + 2 * j + 1])
                 ELSE w[4] >= dot

\* re.sub of one pattern: leftmost matches, not overlapping; what follows
\* the match in the last word (its further dots) is kept after the result
RECURSIVE SubNotes(_, _, _)
SubNotes(ws, i, pat) ==
    IF i > Len(ws) THEN ws
    ELSE IF TiedRunAt(ws, i, pat[1], pat[2])
    THEN LET last == i + 2 * (pat[1] - 1)
             w == << ws[i][1], ws[i][2], pat[3], pat[4] + (ws[last][4] - pat[2]) >>
         IN  SubNotes(SubSeq(ws, 1, i - 1) \o << w >> \o SubSeq(ws, last + 1, Len(ws)),
                      i + 1, pat)
    ELSE SubNotes(ws, i + 1, pat)

\* " ".join(["r4" + dot] * numNotes) occurs at word i
RestRunAt(ws, i, numNotes, dot) ==
    /\ i + numNotes - 1 <= Len(ws)
    /\ \A j \in 0..(numNotes - 1) :
          LET w == ws[i + j]
          IN  /\ IsRestWord(w)
              /\ w[3] = 4
              /\ IF j < numNotes - 1 THEN w[4] = dot ELSE w[4] >= dot

\* str.replace of the rests of one pattern
RECURSIVE ReplaceRests(_, _, _)
ReplaceRests(ws, i, pat) ==
    IF i > Len(ws) THEN ws
    ELSE IF RestRunAt(ws, i, pat[1], pat[2])
    THEN LET last == i + pat[1] - 1
             w == << "r", << >>, pat[3], pat[4] + (ws[last][4] - pat[2]) >>
         IN  ReplaceRests(SubSeq(ws, 1, i - 1) \o << w >> \o SubSeq(ws, last + 1, Len(ws)),
                          i + 1, pat)
    ELSE ReplaceRests(ws, i + 1, pat)

RECURSIVE CollapseFrom(_, _)
CollapseFrom(ws, k) ==
    IF k > Len(note_patterns) THEN ws
    ELSE CollapseFrom(ReplaceRests(SubNotes(ws, 1, note_patterns[k]), 1,
                                   note_patterns[k]),
                      k + 1)

collapse_tied_notes(ws) == CollapseFrom(ws, 1)

\* finalize_output collapses the text of the performance rendering only
finalize_output(ws, r) == IF midi(r) \/ western(r) THEN collapse_tied_notes(ws) ELSE ws

TheRendering == CHOOSE r \in DOMAIN nm : TRUE

\* a note is read and its words are put out
Emit(t) ==
    /\ Len(out) < MaxWords
    /\ Step(t)
    /\ LET r == TheRendering
           res == process_note(out, lastPtr, afternext, r, nm[r], nm'[r], t)
       IN  IF nm'[r].err = ""
           THEN out' = res[1] /\ lastPtr' = res[2] /\ afternext' = FALSE
           ELSE UNCHANGED << out, lastPtr, afternext >>
    /\ UNCHANGED << body, opened, registry, headerVars, unicodeVars, nestVars >>

EmitNote(Figs, Beams, Dots, Octs, Accs) ==
    \E f \in Figs, b \in Beams, d \in Dots, o \in Octs, a \in Accs :
        Emit(<< "note", f, b, d, o, a >>)

\* the time signature at the head of the text is read and put out
EmitTime(Sigs) ==
    /\ out = << >>
    /\ \E ts \in Sigs : Step(<< "time", ts[1], ts[2], 0, FALSE >>)
    /\ out' = Append(out, << "\\time" >>)
    /\ UNCHANGED << lastPtr, body, opened, others >>

\* the end of the text: the final checks, then finalize_output
Finalize ==
    /\ \E sl \in BOOLEAN : Step(<< "end", sl >>)
    /\ out' = IF nm'[TheRendering].err = "ok"
              THEN finalize_output(out, TheRendering) ELSE out
    /\ UNCHANGED << lastPtr, body, opened, others >>

InitMidi ==
    /\ nm = ("midi" :> initOneScore)
    /\ tok = << "start" >>
    /\ has_lyrics = FALSE
    /\ withStaff = FALSE
    /\ body = << >>
    /\ opened = nm
    /\ out = << >>
    /\ lastPtr = 0
    /\ defines_done = { }
    /\ defs = << << >>, << >> >>
    /\ headers = << >>
    /\ declared = << >>
    /\ inDat = << >>
    /\ mode = "lilypond"
    /\ unicode_approx = << >>
    /\ uText = << >>
    /\ brackets = << >>
    /\ afternext = FALSE

NextCollapse ==
    \/ EmitNote({ << "1" >>, << "-" >>, << "0" >> }, { 0 }, { 0, 1 }, { << >> }, { "" })
    \/ EmitNote({ << "2" >> }, { 0 }, { 0 }, { << >> }, { "" })
    \/ EmitTime({ << 12, 8 >>, << 2, 4 >> })
    \/ Finalize

SpecCollapse == InitMidi /\ [][NextCollapse]_vars

\* The claimed table: the note that replaces a run of k tied crotchets with
\* d dots each, as << length, dots >>; << >> where the table has no entry
TableEntry(k, d) ==
    CASE k = 4 /\ d = 0 -> << 1, 0 >>
      [] k = 4 /\ d = 1 -> << 1, 1 >>
      [] k = 3 /\ d = 0 -> << 2, 1 >>
      [] k = 2 /\ d = 1 -> << 2, 1 >>
      [] k = 2 /\ d = 0 -> << 2, 0 >>
      [] OTHER -> << >>

\* the words of ws without the rests and the ties after rests
RECURSIVE NotesOnly(_)
NotesOnly(ws) ==
    IF ws = << >> THEN << >>
    ELSE IF IsRestWord(Head(ws))
    THEN IF Len(ws) > 1 /\ IsTie(ws[2]) THEN NotesOnly(Tail(Tail(ws)))
         ELSE NotesOnly(Tail(ws))
    ELSE << Head(ws) >> \o NotesOnly(Tail(ws))

\* the word that the tie after word i leads to (0 if there is no tie or no
\* such word); across says whether a tie over a bar check counts
TiedTo(ws, i, across) ==
    IF i + 2 <= Len(ws) /\ IsTie(ws[i + 1]) /\ IsNoteWord(ws[i + 2]) THEN i + 2
    ELSE IF /\ across /\ i + 3 <= Len(ws) /\ IsTie(ws[i + 1])
            /\ ws[i + 2] = << "|" >> /\ IsNoteWord(ws[i + 3])
    THEN i + 3
    ELSE 0

\* word j continues the run of word i
SameClass(ws, i, j) ==
    /\ ws[j][2] = ws[i][2] /\ ws[i][3] = 4 /\ ws[j][3] = 4 /\ ws[j][4] = ws[i][4]

\* the last word of the maximal run of tied same-pitch crotchets with equal
\* dots that starts at word i, and the number of its notes
RECURSIVE RunEnd(_, _, _)
RunEnd(ws, i, across) ==
    LET j == TiedTo(ws, i, across)
    IN  IF j # 0 /\ SameClass(ws, i, j) THEN RunEnd(ws, j, across) ELSE i

RECURSIVE RunCount(_, _, _)
RunCount(ws, i, across) ==
    LET j == TiedTo(ws, i, across)
    IN  IF j # 0 /\ SameClass(ws, i, j) THEN 1 + RunCount(ws, j, across) ELSE 1

\* every run of ws from word i on is a single note or has an entry in the
\* table, and no run is tied on to a crotchet with other dots
RECURSIVE Covered(_, _, _)
Covered(ws, i, across) ==
    IF i > Len(ws) THEN TRUE
    ELSE IF ~IsNoteWord(ws[i]) THEN Covered(ws, i + 1, across)
    ELSE LET k == RunCount(ws, i, across)
             last == RunEnd(ws, i, across)
             on == TiedTo(ws, last, across)
         IN  /\ k = 1 \/ TableEntry(k, ws[i][4]) # << >>
             /\ on # 0 => ~(ws[on][3] = 4 /\ ws[last][3] = 4)
             /\ Covered(ws, last + 1, across)

\* the text as claimed: every run is replaced by the note of the table
RECURSIVE ClaimedCollapse(_, _, _)
ClaimedCollapse(ws, i, across) ==
    IF i > Len(ws) THEN << >>
    ELSE IF ~IsNoteWord(ws[i]) THEN << ws[i] >> \o ClaimedCollapse(ws, i + 1, across)
    ELSE LET k == RunCount(ws, i, across)
             last == RunEnd(ws, i, across)
             e == TableEntry(k, ws[i][4])
         IN  IF k = 1
             THEN << ws[i] >> \o ClaimedCollapse(ws, i + 1, across)
             ELSE << << "n", ws[i][2], e[1], e[2] >> >>
                     \o ClaimedCollapse(ws, last + 1, across)

Finalized == Kind(tok') = "end" /\ nm'[TheRendering].err = "ok"

(***************************************************************************)
(* C12 as claimed: in the finished text of the performance rendering every *)
(* run of tied same-pitch crotchets (plain or dotted alike) whose size is  *)
(* in the table is one note of the table's length, and every untied note   *)
(* is as it was put out; a tie over a bar line joins a run like any other. *)
(***************************************************************************)
C12_AnyRun ==
    [][(Finalized /\ Covered(NotesOnly(out), 1, TRUE))
          => NotesOnly(out') = ClaimedCollapse(NotesOnly(out), 1, TRUE)]_vars

(***************************************************************************)
(* C12 as amended: the same for the runs that lie within one bar; a tie    *)
(* over a bar line ends a run and stays in the text.                       *)
(***************************************************************************)
C12_RunInBar ==
    [][(Finalized /\ Covered(NotesOnly(out), 1, FALSE))
          => NotesOnly(out') = ClaimedCollapse(NotesOnly(out), 1, FALSE)]_vars

\* "4/4 1 - - -" has been finished: the text is one whole note
C12_Witness ==
    /\ Kind(tok) = "end" /\ nm[TheRendering].err = "ok"
    /\ out = << << "n", << << "1" >>, "", 0 >>, 1, 0 >> >>

NoTie(ws) == \A i \in 1..Len(ws) : ~IsTie(ws[i])

(***************************************************************************)
(* C13: when the text of the performance rendering has no tie, collapsing  *)
(* the collapsed text again changes nothing.                               *)
(***************************************************************************)
C13_Idempotent ==
    [][(Finalized /\ NoTie(out))
          => /\ out' = collapse_tied_notes(out)
             /\ collapse_tied_notes(out') = out']_vars

\* "1 2 0 0" has been finished: the untied notes stand, the rests are merged
C13_Witness ==
    /\ Kind(tok) = "end" /\ nm[TheRendering].err = "ok"
    /\ out = << << "n", << << "1" >>, "", 0 >>, 4, 0 >>,
                << "n", << << "2" >>, "", 0 >>, 4, 0 >>,
                << "r", << >>, 2, 0 >> >>

(***************************************************************************)
(* SpecChord: crotchets that are single notes, rests, dashes or chords,    *)
(* with and without a sharp, in and out of angka mode; unrecognised words, *)
(* an unclosed repeat and the end of the score.                            *)
(***************************************************************************)
WordTok == Read(<< "word" >>)

NextChord ==
    \/ Note({ << "1" >>, << "0" >>, << "-" >>, << "1", "3" >>, << "1", "0" >>,
              << "1", "-" >> }, { 0 }, { 0 }, { << >> }, { "", "#" })
    \/ WordTok
    \/ AngkaTok
    \/ RepeatOpenTok
    \/ EndOfScore

SpecChord == Init /\ [][NextChord]_vars

Failed == \E r \in DOMAIN nm : nm[r].err \notin { "", "ok" }

(***************************************************************************)
(* C14: once a rendering has failed, whatever the error, no token is read  *)
(* any more, no field of any rendering's state changes, nothing is added   *)
(* to the output and getLY does not return.                                *)
(***************************************************************************)
C14_Terminal ==
    [][Failed => /\ nm' = nm
                 /\ tok' = tok
                 /\ out' = out]_vars

\* an unrecognised word has ended the run after a note was read
C14_Witness ==
    /\ tok = << "word" >>
    /\ \E r \in DOMAIN nm : /\ nm[r].err = "Unrecognised command"
                            /\ nm[r].last_figures # << >>

\* the token is a chord with an accidental or with the rest marker
BadChord(t) ==
    /\ IsNote(t) /\ Len(FiguresOf(t)) > 1
    /\ AccidentalOf(t) # "" \/ "0" \in Range(FiguresOf(t))

(***************************************************************************)
(* C15: a chord that carries an accidental or contains the rest marker 0   *)
(* ends the run with one of the two chord errors, and nothing of it is     *)
(* taken into the state or emitted: but for the error the state is as it   *)
(* was before the token.                                                   *)
(***************************************************************************)
C15_ChordError ==
    [][\A r \in DOMAIN nm :
          BadChord(tok')
             => /\ nm'[r].err \in { "Accidentals in chords not yet implemented",
                                    "Can't have rest in chord" }
                /\ nm'[r] = [nm[r] EXCEPT !.err = nm'[r].err]]_vars

\* the chord "10" has been refused after the note "1"
C15_Witness ==
    /\ tok = << "note", << "1", "0" >>, 0, 0, << >>, "" >>
    /\ \E r \in DOMAIN nm : /\ nm[r].err = "Can't have rest in chord"
                            /\ nm[r].last_figures = << "1" >>

(***************************************************************************)
(* SpecOctave: crotchets with octave marks and changes of the base octave. *)
(* The base octave is changed while it is less than MaxShift levels away   *)
(* from the unmarked octave.                                               *)
(***************************************************************************)
MaxShift == 3

OctaveChangeTok(Marks) ==
    /\ \A r \in DOMAIN nm : Abs(nm[r].base_octave) < MaxShift
    /\ \E c \in Marks : Read(<< "<>", c >>)

NextOctave ==
    \/ Note({ << "1" >>, << "0" >>, << "-" >> }, { 0 }, { 0 },
            { << >>, << "'" >>, << "'", "'" >>, << "," >>, << ",", "," >> }, { "" })
    \/ OctaveChangeTok({ << "<" >>, << ">" >> })
    \/ EndOfScore

SpecOctave == Init /\ [][NextOctave]_vars

\* the number of marks c in the octave marks of a token
RECURSIVE CountOf(_, _)
CountOf(marks, c) ==
    IF marks = << >> THEN 0
    ELSE (IF Head(marks) = c THEN 1 ELSE 0) + CountOf(Tail(marks), c)

\* the note's own octave marks combined with the running base octave
EffectiveOctave(self, t) ==
    self.base_octave + CountOf(OctaveOf(t), "'") - CountOf(OctaveOf(t), ",")

\* what the claim says of a note read in state self, after being the state
\* behind it
OctaveAsClaimed(self, after, t) ==
    LET eff == EffectiveOctave(self, t)
    IN  IF eff > 2 \/ eff < 0 - 2
        THEN after.err = "Can't handle octave"
        ELSE after.err = "" /\ after.last_octave = eff

(***************************************************************************)
(* C16 as claimed: every note (rest and dash alike) whose effective octave *)
(* is more than two levels from the unmarked octave ends the run with the  *)
(* octave error, and every other note is accepted with its effective       *)
(* octave as last_octave.                                                  *)
(***************************************************************************)
C16_EveryNote ==
    [][\A r \in DOMAIN nm :
          IsNote(tok') => OctaveAsClaimed(nm[r], nm'[r], tok')]_vars

(***************************************************************************)
(* C16 as amended: so it is for every note but a dash that extends the     *)
(* note before it; such a dash is accepted whatever its effective octave   *)
(* and leaves last_octave as it was.                                       *)
(***************************************************************************)
C16_OctaveRange ==
    [][\A r \in DOMAIN nm :
          IsNote(tok')
             => IF invisTieLast(nm[r], FiguresOf(tok'))
                THEN nm'[r].err = "" /\ nm'[r].last_octave = nm[r].last_octave
                ELSE OctaveAsClaimed(nm[r], nm'[r], tok')]_vars

\* the base octave is one level up and the note "1''" has been refused
C16_Witness ==
    /\ tok = << "note", << "1" >>, 0, 0, << "'", "'" >>, "" >>
    /\ \E r \in DOMAIN nm : /\ nm[r].err = "Can't handle octave"
                            /\ nm[r].base_octave = 1

(***************************************************************************)
(* SpecTime: time signatures with plain and dotted anacruses, crotchets    *)
(* and quavers, and the end of the score.                                  *)
(***************************************************************************)
NextTime ==
    \/ TimeSig({ << 3, 4 >>, << 6, 8 >>, << 2, 4 >>, << 1, 4 >>, << 4, 3 >>, << 3, 16 >> },
               { << 0, FALSE >>, << 4, FALSE >>, << 4, TRUE >>, << 2, FALSE >>,
                 << 8, TRUE >>, << 1, FALSE >> })
    \/ Note({ << "1" >> }, { 0, 1 }, { 0 }, { << >> }, { "" })
    \/ EndOfScore

SpecTime == Init /\ [][NextTime]_vars

\* the token is a time signature with an anacrusis
HasAnacrusis(t) == Kind(t) = "time" /\ t[4] # 0

\* barLengthUnits - 64/denominator, less half of 64/denominator if dotted
ClaimedAnacrusis(after, t) ==
    LET whole == F(64, t[4])
        p == FSub(FInt(after.barLength), whole)
    IN  IF t[5] THEN FSub(p, FDiv(whole, FInt(2))) ELSE p

(***************************************************************************)
(* C17: a time signature with an anacrusis fails with the                  *)
(* anacrusis-longer-than-bar error exactly when the bar length less the    *)
(* anacrusis (64/denominator, and half as much again if dotted) is         *)
(* negative; otherwise barPos and startBarPos are both that value, 0 for   *)
(* an anacrusis as long as the bar.                                        *)
(***************************************************************************)
C17_Anacrusis ==
    [][\A r \in DOMAIN nm :
          HasAnacrusis(tok')
             => LET v == ClaimedAnacrusis(nm'[r], tok')
                IN  IF FLt(v, FZero)
                    THEN nm'[r].err = "Anacrusis is longer than bar"
                    ELSE /\ nm'[r].err = ""
                         /\ nm'[r].barPos = v
                         /\ nm'[r].startBarPos = v]_vars

\* "2/4,2": the anacrusis is as long as the bar and the bar starts at 0
C17_Witness ==
    /\ tok = << "time", 2, 4, 2, FALSE >>
    /\ \E r \in DOMAIN nm : /\ nm[r].err = ""
                            /\ nm[r].barPos = FZero
                            /\ nm[r].startBarPos = FZero

(***************************************************************************)
(* C18: a time signature sets the bar length to exactly                    *)
(* 64 * numerator / denominator, and the beat length to 24 if the          *)
(* denominator is greater than 4 and the numerator a multiple of 3, and to *)
(* 16 otherwise.                                                           *)
(***************************************************************************)
C18_ExactBarLength ==
    [][\A r \in DOMAIN nm :
          Kind(tok') = "time"
             => /\ FInt(nm'[r].barLength) = F(64 * tok'[2], tok'[3])
                /\ nm'[r].beatLength =
                      IF tok'[3] > 4 /\ tok'[2] % 3 = 0 THEN 24 ELSE 16]_vars

IsDash(t) == IsNote(t) /\ FiguresOf(t) = << "-" >>

TiesIn(ws) == Cardinality({ i \in 1..Len(ws) : IsTie(ws[i]) })

(***************************************************************************)
(* C19: in the text of the performance rendering, a dash read after a note *)
(* puts a tie right after that note and comes out as a note of the same    *)
(* figures, accidental and octave, and leaves last_figures, last_octave    *)
(* and last_accidental as they were; a dash read after a rest, or after a  *)
(* dash that came out as a rest, comes out as a rest and adds no tie.      *)
(***************************************************************************)
C19_Dash ==
    [][\A r \in DOMAIN nm :
          (IsDash(tok') /\ nm'[r].err = "" /\ lastPtr # 0)
             => LET prev == out[lastPtr]
                    new == out'[Len(out')]
                IN  IF IsNoteWord(prev)
                    THEN /\ out'[lastPtr + 1] = << "~" >>
                         /\ IsNoteWord(new) /\ new[2] = prev[2]
                         /\ nm'[r].last_figures = nm[r].last_figures
                         /\ nm'[r].last_octave = nm[r].last_octave
                         /\ nm'[r].last_accidental = nm[r].last_accidental
                    ELSE /\ IsRestWord(new)
                         /\ TiesIn(out') = TiesIn(out)]_vars

(***************************************************************************)
(* SpecBatch: the calls of getLY that process_input makes one after the    *)
(* other for the scores of a batch.  From the second call on, opened holds *)
(* the states of the same call made on its own: it starts from the state   *)
(* after construction and reads the same tokens.  body is empty during the *)
(* first call and << <<"NextScore">> >> after it.                          *)
(***************************************************************************)
\* a call of getLY that leaves the base octave of the call before
NewCall_KeepBaseOctave(self) ==
    [initOneScore EXCEPT !.last_accidental = self.last_accidental,
                         !.base_octave = self.base_octave]

\* the state in which getLY reads its first token when self is the state
\* the call before has left: initOneScore sets every field of the model but
\* last_accidental, process_input clears not_angka, and the repeat stack
\* is a local of getLY
NewCall(self) == [initOneScore EXCEPT !.last_accidental = self.last_accidental]

NextScore ==
    /\ \A r \in DOMAIN nm : nm[r].err = "ok"
    /\ nm' = [r \in DOMAIN nm |-> NewCall(nm[r])]
    /\ tok' = << "NextScore" >>
    /\ body' = << << "NextScore" >> >>
    /\ opened' = [r \in DOMAIN nm |-> initOneScore]
    /\ UNCHANGED << has_lyrics, withStaff, out, lastPtr, defines_done >>
    /\ defs' = << << >>, defs[2] >>
    /\ headers' = << >>
    /\ declared' = [n \in DOMAIN declared |-> << declared[n][1], "score" >>]
    /\ UNCHANGED << unicodeVars, nestVars, spliceVars >>

BatchTokens ==
    { << "note", << "1" >>, 1, 0, << >>, "#" >>,
      << "time", 6, 8, 8, FALSE >>, << "KeepLength" >>, << "[", 3 >>,
      << "<>", << ">" >> >>, << "end", FALSE >>, << "end", TRUE >> }

BatchRead(t) ==
    /\ Kind(t) = "R{" => CanOpen
    /\ Kind(t) = "<>" => \A r \in DOMAIN nm : Abs(nm[r].base_octave) < MaxShift
    /\ Step(t)
    /\ opened' = IF body = << >> THEN opened
                 ELSE [r \in DOMAIN nm |-> Handle(opened[r], r, t)]
    /\ UNCHANGED << body, out, lastPtr, others >>

NextBatch ==
    \/ \E t \in BatchTokens : BatchRead(t)
    \/ NextScore

SpecBatch == Init /\ [][NextBatch]_vars

\* the fields that the claim lists hold their initial values
FieldsInitial(self) ==
    /\ self.barLength = 64 /\ self.beatLength = 16
    /\ self.barPos = FZero /\ self.startBarPos = FZero
    /\ self.barNo = 1
    /\ self.tuplet = << 1, 1 >>
    /\ self.base_octave = 0
    /\ self.current_accidentals = << >>
    /\ self.inBeamGroup = 0
    /\ self.lastNBeams = 0
    /\ self.keepLength = 0 /\ ~self.not_angka /\ ~self.last_was_rest
    /\ self.last_figures = << >>

\* a and b agree on every field; last_accidental counts once a note has
\* been read (no field of that name is in the claim's list)
SameState(a, b) ==
    /\ [a EXCEPT !.last_accidental = b.last_accidental] = b
    /\ a.last_figures # << >> => a.last_accidental = b.last_accidental

Reaches624(self, r, figures0, octave0, accidental0) ==
    /\ ChordError(figures0, accidental0) = ""
    /\ ~PlaceholderKeyError(r, figures0)
    /\ IF invisTieLast(self, figures0)
       THEN ~NameKeyError(self.last_figures)
       ELSE ~OctaveError(addOctaves(octave0, self.base_octave))

\* a registry that defines the notehead at every use
NewDefine_EveryUse(done, r, figures) == ~midi(r) /\ ~western(r)

\* line 624: figures not in self.defines_done and not midi and not western
NewDefine(done, r, figures) == figures \notin done /\ ~midi(r) /\ ~western(r)

CountIn(f, k) == IF k \in DOMAIN f THEN f[k] ELSE 0

Counted(f, k, n) == (k :> CountIn(f, k) + n) @@ f

\* a note is read and its notehead is looked up
Lookup(t) ==
    /\ Step(t)
    /\ LET r == TheRendering
           key == LookupKey(nm[r], FiguresOf(t), AccidentalOf(t))
           n == IF NewDefine(defines_done, r, key) THEN 1 ELSE 0
       IN  IF Reaches624(nm[r], r, FiguresOf(t), OctaveOf(t), AccidentalOf(t))
              /\ ~midi(r) /\ ~western(r)
           THEN /\ defines_done' = IF n = 1 THEN defines_done \cup { key }
                                   ELSE defines_done
                /\ defs' = << Counted(defs[1], key, n), Counted(defs[2], key, n) >>
           ELSE UNCHANGED registry
    /\ UNCHANGED << body, opened, out, lastPtr, headerVars, unicodeVars, nestVars, spliceVars >>

LookupNote(Figs, Accs) ==
    \E f \in Figs, a \in Accs : Lookup(<< "note", f, 0, 0, << >>, a >>)

NextGlyph ==
    \/ LookupNote({ << "1" >> }, { "", "#" })
    \/ LookupNote({ << "-" >> }, { "" })
    \/ AngkaTok
    \/ EndOfScore
    \/ NextScore

SpecGlyph == Init /\ [][NextGlyph]_vars

(***************************************************************************)
(* C21, as claimed: in every call each key that a note of the display      *)
(* rendering has looked up has had its definition put out exactly once by  *)
(* that call.                                                              *)
(***************************************************************************)
C21_OncePerScore == \A k \in DOMAIN defs[1] : defs[1][k] = 1

(***************************************************************************)
(* C21: the registry is never re-initialized, so over all the calls each   *)
(* key that a note of the display rendering has looked up has had its      *)
(* definition put out exactly once, and the registry holds these keys.     *)
(***************************************************************************)
C21_OncePerRun ==
    /\ \A k \in DOMAIN defs[2] : defs[2][k] = 1
    /\ defines_done = DOMAIN defs[2]
    /\ \A k \in DOMAIN defs[1] : defs[1][k] <= 1

\* a later score has looked up a key that an earlier score defined, and a
\* key of its own
C21_Witness ==
    /\ body # << >>
    /\ \E k \in DOMAIN defs[1] : defs[1][k] = 0 /\ defs[2][k] = 1
    /\ \E k \in DOMAIN defs[1] : defs[1][k] = 1

(***************************************************************************)
(* SpecHeader: the header lines of the parts and scores of a batch.  The   *)
(* header names are as line 1428 leaves them (stripped, in lower case).    *)
(***************************************************************************)
\* line 1429: not headers.get(hName, hValue) == hValue
HeaderConflict(hs, hName, hValue) == hName \in DOMAIN hs /\ hs[hName] # hValue

\* a part boundary that hands every header on to the next part
AfterPart_KeepAll(hs) == hs

\* lines 2230-2232, for a part that another part follows (len(parts) > 1):
\* the instrument is taken out of the dictionary
AfterPart(hs) == [n \in DOMAIN hs \ { "instrument" } |-> hs[n]]

\* a line "hName=hValue": process_headers_line
HeaderLine(Names, Values) ==
    \E hName \in Names, hValue \in Values :
        /\ \A r \in DOMAIN nm : Running(r)
        /\ tok' = << "header", hName, hValue >>
        /\ IF HeaderConflict(headers, hName, hValue)
           THEN /\ nm' = [r \in DOMAIN nm |-> errExit(nm[r], "Changing header")]
                /\ UNCHANGED headerVars
           ELSE /\ headers' = (hName :> hValue) @@ headers
                /\ declared' = (hName :> << hValue, "none" >>) @@ declared
                /\ UNCHANGED nm
        /\ UNCHANGED << has_lyrics, withStaff, body, opened, out, lastPtr, registry,
                     unicodeVars, nestVars, spliceVars >>

\* the strongest boundary since a declaration, once a part boundary is read
WithPart(b) == IF b = "none" THEN "part" ELSE b

\* "NextPart": getLY has returned and is called for the next part
NextPart ==
    /\ \A r \in DOMAIN nm : nm[r].err = "ok"
    /\ nm' = [r \in DOMAIN nm |-> NewCall(nm[r])]
    /\ tok' = << "NextPart" >>
    /\ headers' = AfterPart(headers)
    /\ declared' = [n \in DOMAIN declared |->
                      << declared[n][1], WithPart(declared[n][2]) >>]
    /\ defs' = << << >>, defs[2] >>
    /\ UNCHANGED << has_lyrics, withStaff, body, opened, out, lastPtr,
                    defines_done, unicodeVars, nestVars, spliceVars >>

NextHeader ==
    \/ HeaderLine({ "title", "instrument" }, { "a", "b" })
    \/ Note({ << "1" >> }, { 0 }, { 0 }, { << >> }, { "" })
    \/ EndOfScore
    \/ NextPart
    \/ NextScore

SpecHeader == Init /\ [][NextHeader]_vars

\* the last declaration of hName had another value than hValue
Redeclared(hName, hValue) ==
    hName \in DOMAIN declared /\ declared[hName][1] # hValue

Since(hName) == declared[hName][2]

HeaderStep == Kind(tok') = "header" /\ \A r \in DOMAIN nm : Running(r)

HeaderFatal == \A r \in DOMAIN nm : nm'[r].err = "Changing header"

(***************************************************************************)
(* C22, as claimed: a header line is fatal exactly when the name was last  *)
(* declared with another value and neither a part boundary nor a score     *)
(* boundary has been read since.                                           *)
(***************************************************************************)
C22_AnyBoundary ==
    [][HeaderStep =>
         (HeaderFatal <=> /\ Redeclared(tok'[2], tok'[3])
                          /\ Since(tok'[2]) = "none")]_vars

(***************************************************************************)
(* C22: a header line is fatal exactly when the name was last declared     *)
(* with another value and no score boundary has been read since, nor, for  *)
(* the instrument header, a part boundary.  A line that is not fatal       *)
(* leaves every rendering as it was.                                       *)
(***************************************************************************)
C22_Header ==
    [][HeaderStep =>
         /\ HeaderFatal <=>
               /\ Redeclared(tok'[2], tok'[3])
               /\ \/ Since(tok'[2]) = "none"
                  \/ Since(tok'[2]) = "part" /\ tok'[2] # "instrument"
         /\ ~HeaderFatal => nm' = nm]_vars

\* a title declared again with another value after a part boundary has
\* stopped the run, and an instrument has been declared again after one
C22_Witness ==
    /\ tok = << "header", "title", "b" >>
    /\ \A r \in DOMAIN nm : nm[r].err = "Changing header"
    /\ declared["title"] = << "a", "part" >>
    /\ "instrument" \in DOMAIN declared
    /\ declared["instrument"] = << "b", "none" >>
    /\ body = << >>

(***************************************************************************)
(* SpecUnicode: process_input on a text of at most MaxText words, from its *)
(* start to the return of get_unicode_approx.  A text without the word     *)
(* "Unicode" goes the LilyPond way, which this specification does not      *)
(* follow.                                                                 *)
(***************************************************************************)
MaxText == 5

Words == { "1", "-", "NextPart", "NextScore", "Unicode" }

Texts == UNION { [1..n -> Words] : n \in 0..MaxText }

\* re.search(r"\sword\s", " " + inDat + " ")
HasWord(ws, w) == \E i \in DOMAIN ws : ws[i] = w

\* re.sub(r"\sUnicode\s", " ", " " + inDat + " ").strip(): a match takes
\* the white space on both sides and matches do not overlap, so the word
\* after a word that was taken out stays
RECURSIVE SubUnicode(_, _)
SubUnicode(ws, taken) ==
    IF ws = << >> THEN << >>
    ELSE IF Head(ws) = "Unicode" /\ ~taken THEN SubUnicode(Tail(ws), TRUE)
    ELSE << Head(ws) >> \o SubUnicode(Tail(ws), FALSE)

\* a get_unicode_approx that goes on to getLY whatever the text holds
Unsupported_Nothing(ws) == ""

\* lines 2278-2281
Unsupported(ws) ==
    IF HasWord(ws, "NextPart")
    THEN "multiple parts in Unicode mode not yet supported"
    ELSE IF HasWord(ws, "NextScore")
    THEN "multiple scores in Unicode mode not yet supported"
    ELSE ""

\* process_input up to the loop over the scores, and get_unicode_approx up
\* to its call of getLY
Start ==
    /\ mode = "start"
    /\ IF HasWord(inDat, "Unicode")
       THEN /\ mode' = "unicode"
            /\ inDat' = SubUnicode(inDat, FALSE)
            /\ IF Unsupported(inDat') # ""
               THEN /\ nm' = [r \in DOMAIN nm |-> errExit(nm[r], Unsupported(inDat'))]
                    /\ UNCHANGED << has_lyrics, withStaff >>
               ELSE /\ has_lyrics' = TRUE
                    /\ withStaff' = TRUE
                    /\ UNCHANGED nm
       ELSE /\ mode' = "lilypond"
            /\ UNCHANGED << nm, inDat, has_lyrics, withStaff >>
    /\ UNCHANGED << tok, body, opened, out, lastPtr, registry, headerVars,
                    unicode_approx, uText, nestVars, spliceVars >>

\* the token that getLY makes of a word
TokenOf(w) ==
    IF w \in { "1", "-" } THEN << "note", << w >>, 0, 0, << >>, "" >>
    ELSE << "word" >>

RECURSIVE Copies(_, _)
Copies(cs, n) == IF n = 0 THEN << >> ELSE cs \o Copies(cs, n - 1)

\* lines 845-859: the characters that a note adds to unicode_approx
UnicodeOf(self, after, t) ==
    LET tie == invisTieLast(self, FiguresOf(t))
        key == LookupKey(self, FiguresOf(t), AccidentalOf(t))
        beamC == IF after.lastNBeams >= 2 THEN << "U+0333" >>
                 ELSE IF after.lastNBeams = 1 THEN << "U+0332" >> ELSE << >>
        mark == IF tie \/ after.last_octave = 0 THEN << >>
                ELSE IF after.last_octave < 0 THEN << "U+0323" >>
                ELSE << "U+0307" >>
        text == (IF tie THEN << "-" >> ELSE << key[Len(key)] >>)
                    \o mark \o beamC \o Copies(<< "." >> \o beamC, DotsOf(t))
    IN  IF FAdd(self.barPos, after.toAdd) = FInt(self.barLength)
        THEN text \o << "U+2502" >>
        ELSE IF after.inBeamGroup # 0 THEN text ELSE text \o << " " >>

\* getLY reads the next word of the text
UnicodeRead ==
    /\ mode = "unicode"
    /\ inDat # << >>
    /\ Step(TokenOf(Head(inDat)))
    /\ inDat' = Tail(inDat)
    /\ LET r == TheRendering
       IN  unicode_approx' =
              IF IsNote(tok') /\ nm'[r].err = ""
              THEN Append(unicode_approx, UnicodeOf(nm[r], nm'[r], tok'))
              ELSE unicode_approx
    /\ UNCHANGED << body, opened, out, lastPtr, registry, headerVars, mode, uText,
                    nestVars, spliceVars >>

RECURSIVE Join(_)
Join(list) == IF list = << >> THEN << >> ELSE Head(list) \o Join(Tail(list))

\* lines 2291-2294
FinalBar(cs) ==
    IF cs # << >> /\ cs[Len(cs)] = "U+2502"
    THEN SubSeq(cs, 1, Len(cs) - 1) \o << "U+2551" >>
    ELSE cs

\* the end of the text: the final checks of getLY, then the return of
\* get_unicode_approx
UnicodeReturn ==
    /\ mode = "unicode"
    /\ inDat = << >>
    /\ \E sl \in BOOLEAN : Step(<< "end", sl >>)
    /\ IF nm'[TheRendering].err = "ok"
       THEN mode' = "returned" /\ uText' = FinalBar(Join(unicode_approx))
       ELSE UNCHANGED << mode, uText >>
    /\ UNCHANGED << body, opened, out, lastPtr, registry, headerVars,
                    inDat, unicode_approx, nestVars, spliceVars >>

InitUnicode ==
    /\ nm = ("glyph" :> initOneScore)
    /\ tok = << "start" >>
    /\ has_lyrics = FALSE
    /\ withStaff = FALSE
    /\ body = << >>
    /\ opened = nm
    /\ out = << >>
    /\ lastPtr = 0
    /\ defines_done = { }
    /\ defs = << << >>, << >> >>
    /\ headers = << >>
    /\ declared = << >>
    /\ inDat \in Texts
    /\ mode = "start"
    /\ unicode_approx = << >>
    /\ uText = << >>
    /\ brackets = << >>
    /\ afternext = FALSE

NextUnicode == Start \/ UnicodeRead \/ UnicodeReturn

SpecUnicode == InitUnicode /\ [][NextUnicode]_vars

HasBoundary(ws) == HasWord(ws, "NextPart") \/ HasWord(ws, "NextScore")

Characters == { "1", "-", " ", ".", "U+0332", "U+0333", "U+0323", "U+0307",
                "U+2502", "U+2551" }

(***************************************************************************)
(* C23: in Unicode mode a text with a part boundary or a score boundary is *)
(* stopped with an error while no word of it has been read: every field is *)
(* as constructed and nothing has been approximated.  For a text with      *)
(* neither, what get_unicode_approx returns is one string of characters,   *)
(* the approximations of the notes put together.                           *)
(***************************************************************************)
C23_FailFast ==
    /\ mode = "unicode" /\ HasBoundary(inDat) =>
          /\ \A r \in DOMAIN nm :
                /\ nm[r].err \notin { "", "ok" }
                /\ [nm[r] EXCEPT !.err = ""] = initOneScore
          /\ tok = << "start" >>
          /\ unicode_approx = << >>
    /\ mode = "returned" =>
          /\ ~HasBoundary(inDat)
          /\ uText # << >>
          /\ \A i \in DOMAIN uText : uText[i] \in Characters
          /\ Len(uText) = Len(Join(unicode_approx))

\* a text with notes and a score boundary has been stopped in Unicode mode
C23_Witness ==
    /\ mode = "unicode"
    /\ HasWord(inDat, "NextScore") /\ ~HasWord(inDat, "NextPart")
    /\ inDat[1] = "1"
    /\ \A r \in DOMAIN nm :
          nm[r].err = "multiple scores in Unicode mode not yet supported"

(***************************************************************************)
(* SpecAccidental: sharpened and plain crotchets inside and outside        *)
(* percent repeats.                                                        *)
(***************************************************************************)
NextAccidental ==
    \/ Note({ << "1" >> }, { 0 }, { 0 }, { << >> }, { "", "#" })
    \/ PercentOpenTok({ 2 })
    \/ RepeatCloseTok
    \/ EndOfScore

SpecAccidental == Init /\ [][NextAccidental]_vars

\* the table records no accidental
NoAccidentals(table) ==
    \A o \in DOMAIN table : \A i \in 1..7 : table[o][i] = ""

(***************************************************************************)
(* C24: whenever a token takes barPos from inside a bar to 0 (a note that  *)
(* completes the bar, or the modulo at the close of a percent repeat), the *)
(* accidental table records no accidental afterwards.                      *)
(***************************************************************************)
C24_WrapClears ==
    [][\A r \in DOMAIN nm :
          (/\ nm'[r].err = ""
           /\ nm[r].barPos # FZero
           /\ nm'[r].barPos = FZero)
          => NoAccidentals(nm'[r].current_accidentals)]_vars

(***************************************************************************)
(* SpecNest: tuplet brackets that open one inside the other, at most       *)
(* MaxDepth deep.                                                          *)
(***************************************************************************)
NestOpen(FitIns) ==
    /\ Len(brackets) < MaxDepth
    /\ \E n \in FitIns : Step(<< "[", n >>)
    /\ brackets' = Append(brackets, nm'[TheRendering].tuplet)
    /\ UNCHANGED << body, opened, out, lastPtr, registry, headerVars, unicodeVars, spliceVars >>

NestClose ==
    /\ Step(<< "]" >>)
    /\ brackets' = IF brackets = << >> THEN << >> ELSE Pop(brackets)
    /\ UNCHANGED << body, opened, out, lastPtr, registry, headerVars, unicodeVars, spliceVars >>

NextNest ==
    \/ Note({ << "1" >> }, 0..1, { 0 }, { << >> }, { "" })
    \/ NestOpen({ 3, 4 })
    \/ NestClose
    \/ EndOfScore

SpecNest == Init /\ [][NextNest]_vars

NextGroup ==
    \/ TimeSig({ << 5, 8 >>, << 6, 8 >>, << 2, 4 >> }, { << 0, FALSE >> })
    \/ Note({ << "1" >> }, 0..1, { 0 }, { << >> }, { "" })
    \/ EndOfScore

SpecGroup == Init /\ [][NextGroup]_vars

(***************************************************************************)
(* C26: in the display rendering a note with beams opens a group when none *)
(* is open and keeps an open one, and a group is closed by a note without  *)
(* beams and at every beat boundary; so after every note a group is open   *)
(* exactly if the note has beams and barPos is not a multiple of the beat  *)
(* length.                                                                 *)
(***************************************************************************)
C26_BeamGroup ==
    [][\A r \in DOMAIN nm :
          (~midi(r) /\ IsNote(tok') /\ nm'[r].err = "")
          => (nm'[r].inBeamGroup = 1 <=>
                 /\ nm'[r].lastNBeams # 0
                 /\ FMod(nm'[r].barPos, nm'[r].beatLength) # FZero)]_vars

(***************************************************************************)
(* C27: after every note lastNBeams is the beam count of that note,        *)
(* whether or not the note has ended a beat and closed the group; and the  *)
(* left beam count of a pitched note is decided on the state that the note *)
(* before has left, the previous note's beam count and the group as it was *)
(* before this note's own close at the beat boundary: the note's count     *)
(* when rule (a) applies, else the lesser of the two counts in an open     *)
(* group and 0 when none is open.                                          *)
(***************************************************************************)
C27_LastBeamCount ==
    [][\A r \in DOMAIN nm :
          (IsNote(tok') /\ nm'[r].err = "")
             => /\ nm'[r].lastNBeams = Requested(nm[r], tok')
                /\ (r = "glyph" /\ ~nm[r].not_angka /\ FiguresOf(tok') # << "-" >>)
                      => nm'[r].leftBeams =
                            IF WideningRule(nm[r], nm'[r], tok')
                            THEN Requested(nm[r], tok')
                            ELSE ClaimedLeft(nm[r], tok')]_vars

\* a quaver has ended the first beat: its group is closed and its beam
\* count is kept, and its own left count is the one of the open group
C27_Witness ==
    \E r \in DOMAIN nm :
        /\ r = "glyph" /\ IsNote(tok) /\ BeamsOf(tok) = 1
        /\ FiguresOf(tok) = << "1" >>
        /\ ~nm[r].not_angka
        /\ nm[r].barPos = << 16, 1 >>
        /\ nm[r].inBeamGroup = 0
        /\ nm[r].lastNBeams = 1
        /\ nm[r].leftBeams = 1
        /\ nm[r].err = ""

(***************************************************************************)
(* SpecRest: notes and short rests in a score with or without lyrics,      *)
(* rendered with or without a staff.                                       *)
(***************************************************************************)
InitRest ==
    /\ \E r \in Renderings : nm = (r :> initOneScore)
    /\ tok = << "start" >>
    /\ has_lyrics \in BOOLEAN
    /\ withStaff \in BOOLEAN
    /\ body = << >>
    /\ opened = nm
    /\ out = << >>
    /\ lastPtr = 0
    /\ defines_done = { }
    /\ defs = << << >>, << >> >>
    /\ headers = << >>
    /\ declared = << >>
    /\ inDat = << >>
    /\ mode = "lilypond"
    /\ unicode_approx = << >>
    /\ uText = << >>
    /\ brackets = << >>
    /\ afternext = FALSE

NextRest ==
    \/ Note({ << "1" >>, << "0" >> }, 0..2, { 0 }, { << >> }, { "" })
    \/ EndOfScore

SpecRest == InitRest /\ [][NextRest]_vars

\* the token read is a rest shorter than a crotchet, in the display rendering
ShortRest(r) ==
    /\ r = "glyph" /\ IsNote(tok') /\ FiguresOf(tok') = << "0" >>
    /\ BeamsOf(tok') > 0
    /\ nm'[r].err = ""

EndsOnBeat(r) ==
    FMod(FAdd(nm[r].barPos, nm'[r].toAdd), nm[r].beatLength) = FZero

(***************************************************************************)
(* C28, as claimed: a short rest of the display rendering is put out as a  *)
(* note placeholder, in a synthetic voice when lyrics are present, and a   *)
(* group that was open before it is not closed by it (it is open after the *)
(* rest unless the rest ends the beat).                                    *)
(***************************************************************************)
C28_GroupSurvives ==
    [][\A r \in DOMAIN nm :
          ShortRest(r)
          => /\ nm'[r].placeholder_chord = "c"
             /\ has_lyrics => nm'[r].inRestHack
             /\ nm[r].inBeamGroup = 1
                   => /\ ~nm'[r].aftrlast0
                      /\ nm'[r].inBeamGroup = IF EndsOnBeat(r) THEN 0 ELSE 1]_vars

(***************************************************************************)
(* C28: a short rest of the display rendering is put out as a note         *)
(* placeholder.  It is put in a synthetic voice exactly when lyrics are    *)
(* present and no staff is rendered; then a group that was open before the *)
(* rest is closed after the note before it, and after the rest the group   *)
(* state is "restHack" (closed, if the rest ends the beat).  Without the   *)
(* synthetic voice the rest closes no group: an open group is still open   *)
(* after it unless the rest ends the beat.                                 *)
(***************************************************************************)
C28_RestHack ==
    [][\A r \in DOMAIN nm :
          ShortRest(r)
          => /\ nm'[r].placeholder_chord = "c"
             /\ nm'[r].inRestHack <=> (has_lyrics /\ ~withStaff)
             /\ nm'[r].aftrlast0 <=> (nm'[r].inRestHack /\ nm[r].inBeamGroup = 1)
             /\ nm'[r].inBeamGroup =
                   IF EndsOnBeat(r) THEN 0
                   ELSE IF nm'[r].inRestHack THEN restHack ELSE 1]_vars

\* a quaver rest after a quaver in a score with lyrics and no staff: the
\* group of the quaver has been closed and the rest has had its own voice
C28_Witness ==
    \E r \in DOMAIN nm :
        /\ r = "glyph" /\ has_lyrics /\ ~withStaff
        /\ tok = << "note", << "0" >>, 2, 0, << >>, "" >>
        /\ nm[r].placeholder_chord = "c"
        /\ nm[r].inRestHack /\ nm[r].aftrlast0
        /\ nm[r].inBeamGroup = restHack
        /\ nm[r].err = ""

(***************************************************************************)
(* SpecKeep: notes with and without a length marker, before and after      *)
(* KeepLength.                                                             *)
(***************************************************************************)
NextKeep ==
    \/ Note({ << "1" >> }, { None, 0, 1, 2 }, { 0 }, { << >> }, { "" })
    \/ KeepLengthTok
    \/ EndOfScore

SpecKeep == Init /\ [][NextKeep]_vars

\* the note read is one whose beam count is b, of length 16 / 2^b
CountsAs(r, b) ==
    /\ nm'[r].lastNBeams = b
    /\ nm'[r].toAdd = ClaimedLength(b, 0, << 1, 1 >>)

(***************************************************************************)
(* C29: KeepLength sets the flag, which notes leave as it is.  A note      *)
(* without a length marker has the beam count of the note before it when   *)
(* the flag is set and no beams when it is not; a note with a marker has   *)
(* the beam count of its marker, none for the crotchet marker, whether the *)
(* flag is set or not.                                                     *)
(***************************************************************************)
C29_Unspecified ==
    [][\A r \in DOMAIN nm :
          /\ tok' = << "KeepLength" >> => nm'[r].keepLength = 1
          /\ IsNote(tok') /\ nm'[r].err = ""
                => /\ nm'[r].keepLength = nm[r].keepLength
                   /\ BeamsOf(tok') = None /\ nm[r].keepLength = 1
                         => CountsAs(r, nm[r].lastNBeams)
                   /\ BeamsOf(tok') = None /\ nm[r].keepLength = 0
                         => CountsAs(r, 0)
                   /\ BeamsOf(tok') \in 0..2
                         => CountsAs(r, BeamsOf(tok'))]_vars

\* after KeepLength and a quaver, a note without a marker has been read as
\* a quaver
C29_Witness ==
    \E r \in DOMAIN nm :
        /\ tok = << "note", << "1" >>, None, 0, << >>, "" >>
        /\ nm[r].keepLength = 1
        /\ nm[r].lastNBeams = 1
        /\ nm[r].toAdd = F(8, 1)
        /\ nm[r].err = ""

(***************************************************************************)
(* SpecSplice: the list out of getLY while notes, commands and grace notes *)
(* are read, in either rendering, with or without a staff.  Besides the    *)
(* words of SpecCollapse, out holds                                        *)
(*   <<"]">>  <<"~">>  <<"]", "~">>   aftrlast: "] ", " ~", "]  ~"         *)
(*   <<"+", b, w>>                    b + w, word w with b put in front    *)
(*   <<"\\afterGrace", w, ws>>        word w inside \afterGrace, the       *)
(*                                    commands ws put inside it later      *)
(*   <<"grace">>  <<"grace-after">>   the markup of grace notes            *)
(*   <<"\\acciaccatura">>  <<"\\textLengthOn">>  <<"#(define", name>>      *)
(* and a command as a word of its own.  A note stands for the whole        *)
(* fragment that the note handler returns in either rendering.             *)
(***************************************************************************)
\* defined_jianpuGrace: the definition is in out once it has been put out
defined_jianpuGrace(ws) ==
    \E i \in 1..Len(ws) : ws[i][1] = "#(define" /\ ws[i][2] = "jianpu-grace"

RECURSIVE InFront(_, _)
InFront(w, b) == w[1] = "+" /\ (w[2] = b \/ InFront(w[3], b))

\* defined_JGR: the definition is in front of a note once it has been put out
defined_JGR(ws) == \E i \in 1..Len(ws) : InFront(ws[i], "#(define jianpu-grace-after")

\* Bound of the model: tokens are read while out and the fragments wrapped
\* in it hold fewer than MaxOut words
MaxOut == 5

RECURSIVE Inside(_)
Inside(w) ==
    IF w[1] = "\\afterGrace" THEN 1 + Len(w[3]) + Inside(w[2])
    ELSE IF w[1] = "+" THEN Inside(w[3])
    ELSE 0

RECURSIVE Weight(_)
Weight(ws) == IF ws = << >> THEN 0 ELSE 1 + Inside(Head(ws)) + Weight(Tail(ws))

\* lines 2088-2099: a LilyPond command goes to the end of out, or inside the
\* \afterGrace of the last note
Command(Ws) ==
    /\ Weight(out) < MaxOut
    /\ \E w \in Ws :
          /\ Step(<< "\\", w >>)
          /\ out' = IF lastPtr > 0 /\ out[lastPtr][1] = "\\afterGrace"
                    THEN [out EXCEPT ![lastPtr][3] = Append(@, w)]
                    ELSE Append(out, << w >>)
    /\ UNCHANGED << lastPtr, body, opened, others >>

\* process_grace_notes: grace notes before the next note
GraceBefore ==
    /\ Weight(out) < MaxOut
    /\ Step(<< "g[" >>)
    /\ LET r == TheRendering
       IN  IF midi(r) \/ western(r)
           THEN /\ out' = Append(out, << "\\acciaccatura" >>)
                /\ UNCHANGED afternext
           ELSE /\ afternext' = TRUE
                /\ out' = out
                     \o (IF ~withStaff THEN << << "\\textLengthOn" >> >> ELSE << >>)
                     \o (IF ~defined_jianpuGrace(out)
                         THEN << << "#(define", "jianpu-grace" >> >> ELSE << >>)
    /\ UNCHANGED << lastPtr, body, opened, registry, headerVars, unicodeVars, nestVars >>

\* process_grace_notes_after: grace notes after the last note
GraceAfter ==
    /\ Weight(out) < MaxOut
    /\ lastPtr > 0
    /\ Step(<< "]g" >>)
    /\ LET r == TheRendering
           o0 == IF ~withStaff THEN Prepend(out, lastPtr, "\\textLengthOn") ELSE out
           o1 == InsertAfter(o0, lastPtr, << "grace-after" >>)
       IN  out' = IF midi(r) \/ western(r)
                  THEN [out EXCEPT ![lastPtr] = << "\\afterGrace", @, << >> >>]
                  ELSE IF ~defined_JGR(out)
                  THEN Prepend(o1, lastPtr, "#(define jianpu-grace-after")
                  ELSE o1
    /\ UNCHANGED << lastPtr, body, opened, others >>

InitSplice ==
    /\ \E r \in Renderings : nm = (r :> initOneScore)
    /\ tok = << "start" >>
    /\ has_lyrics = FALSE
    /\ withStaff \in BOOLEAN
    /\ body = << >>
    /\ opened = nm
    /\ out = << >>
    /\ lastPtr = 0
    /\ defines_done = { }
    /\ defs = << << >>, << >> >>
    /\ headers = << >>
    /\ declared = << >>
    /\ inDat = << >>
    /\ mode = "lilypond"
    /\ unicode_approx = << >>
    /\ uText = << >>
    /\ brackets = << >>
    /\ afternext = FALSE

NextSplice ==
    \/ Weight(out) < MaxOut
          /\ EmitNote({ << "1" >> }, { 0, 1 }, { 0 }, { << >> }, { "" })
    \/ Weight(out) < MaxOut
          /\ EmitNote({ << "-" >> }, { 0 }, { 0 }, { << >> }, { "" })
    \/ Command({ "\\p" })
    \/ GraceBefore
    \/ GraceAfter

SpecSplice == InitSplice /\ [][NextSplice]_vars

\* the note inside a fragment of out (<< >>: none)
RECURSIVE NoteIn(_)
NoteIn(w) ==
    IF Sounds(w) THEN w
    ELSE IF w[1] = "+" THEN NoteIn(w[3])
    ELSE IF w[1] = "\\afterGrace" THEN NoteIn(w[2])
    ELSE << >>

(***************************************************************************)
(* C30: when a note is read after another, the tie or beam-close marker    *)
(* that it produces is the fragment right after the fragment of the last   *)
(* note, and its pre-note override is put in front of that fragment, all   *)
(* the fragments put out since then coming after the marker in their       *)
(* order; after every note lastPtr is the index of the fragment of that    *)
(* note, and no other token moves it or takes the note out of its          *)
(* fragment.                                                               *)
(***************************************************************************)
C30_Splice ==
    [][LET r == TheRendering
           p == lastPtr
           m == aftrlast(nm[r], nm'[r], tok')
           k == IF m # << >> THEN 1 ELSE 0
       IN  IF IsNote(tok') /\ nm'[r].err = ""
           THEN /\ lastPtr' \in 1..Len(out')
                /\ Sounds(out'[lastPtr'])
                /\ out'[lastPtr'][3] = 4 * Pow2(BeamsOf(tok'))
                /\ lastPtr' > Len(out) + k
                /\ p > 0
                      => /\ m # << >> => out'[p + 1] = m
                         /\ out'[p] = IF b4last(nm[r], r, tok')
                                      THEN << "+", "\\once", out[p] >>
                                      ELSE out[p]
                         /\ SubSeq(out', 1, p - 1) = SubSeq(out, 1, p - 1)
                         /\ SubSeq(out', p + 1 + k, Len(out) + k)
                               = SubSeq(out, p + 1, Len(out))
           ELSE /\ lastPtr' = lastPtr
                /\ lastPtr > 0 => NoteIn(out'[lastPtr]) = NoteIn(out[lastPtr])]_vars

\* a dash tied to a note with a command read between them: the override is
\* in front of the note, the tie right after it and before the command, and
\* lastPtr is the index of the dash
C30_Witness ==
    /\ IsDash(tok)
    /\ lastPtr = Len(out)
    /\ \E p \in 1..Len(out) :
          /\ p + 3 = lastPtr
          /\ out[p][1] = "+" /\ out[p][2] = "\\once"
          /\ out[p + 1] = << "~" >>
          /\ out[p + 2] = << "\\p" >>
          /\ Sounds(out[lastPtr])

(***************************************************************************)
(* SpecSlur: convert_ties_to_slurs, which getLY applies to the text of a   *)
(* score before the glyph rendering reads it.  The text is a list of at    *)
(* most MaxText words, "^" standing for an annotation ^"text" and "0" for  *)
(* a word that the note pattern does not match.  The regular expressions   *)
(* are modelled word by word: white space is one blank between words, and  *)
(* the text holds no comment and no time signature.  mode is "lilypond"    *)
(* before the conversion and "slurs" after it.                             *)
(***************************************************************************)
SlurWords == { "1", "-", "~", "^", "0", "(", ")" }

SlurTexts == UNION { [1..n -> SlurWords] : n \in 0..MaxText }

\* line 1273: .replace("|", "")
StripBars(ws) == SelectSeq(ws, LAMBDA w : w # "|")

IsParen(w) == w = "(" \/ w = ")"

\* tied_note_sequence_pattern: the tie at t stands between a "(" and a ")"
\* with no other parenthesis between them
InSlur(ws, t) ==
    \E i \in 1..(t - 1), j \in (t + 1)..Len(ws) :
        /\ ws[i] = "(" /\ ws[j] = ")"
        /\ \A k \in (i + 1)..(j - 1) : ~IsParen(ws[k])

protect_ties_in_slurs(ws) ==
    [t \in DOMAIN ws |-> IF ws[t] = "~" /\ InSlur(ws, t) THEN "__TIE__" ELSE ws[t]]

\* annotation_pattern from word i on: the index of the word after it
RECURSIVE AnnEnd(_, _)
AnnEnd(ws, i) == IF i <= Len(ws) /\ ws[i] = "^" THEN AnnEnd(ws, i + 1) ELSE i

\* dash_and_annotation_pattern from word i on
RECURSIVE TailEnd(_, _)
TailEnd(ws, i) ==
    IF i <= Len(ws) /\ ws[i] = "-" THEN TailEnd(ws, AnnEnd(ws, i + 1)) ELSE i

\* note_pattern + annotation_pattern + dash_and_annotation_pattern at note i
PartEnd(ws, i) == TailEnd(ws, AnnEnd(ws, i + 1))

\* (tie_pattern + note_pattern + annotations + dashes)*, as far as it goes
RECURSIVE GroupsEnd(_, _)
GroupsEnd(ws, e) ==
    IF e + 1 <= Len(ws) /\ ws[e] = "~" /\ ws[e + 1] = "1"
    THEN GroupsEnd(ws, PartEnd(ws, e + 1))
    ELSE e

\* combined_tie_pattern matches from word i to the word before MatchEnd
TieMatch(ws, i) == ws[i] = "1" /\ GroupsEnd(ws, PartEnd(ws, i)) > PartEnd(ws, i)
MatchEnd(ws, i) == GroupsEnd(ws, PartEnd(ws, i))

\* slur_replacement without its last substitution
MoveParens_Keep(ws, i) == SubSeq(ws, i, Len(ws))

\* "Move parenthesis before dashes", from word i on: dashes with their
\* annotations that stand right before a parenthesis change places with it
RECURSIVE MoveParens(_, _)
MoveParens(ws, i) ==
    IF i > Len(ws) THEN << >>
    ELSE LET e == TailEnd(ws, i)
         IN  IF ws[i] = "-" /\ e <= Len(ws) /\ IsParen(ws[e])
             THEN << ws[e] >> \o SubSeq(ws, i, e - 1) \o MoveParens(ws, e + 1)
             ELSE << ws[i] >> \o MoveParens(ws, i + 1)

FirstTie(ws) == CHOOSE f \in 1..Len(ws) : ws[f] = "~" /\ \A k \in 1..(f - 1) : ws[k] # "~"

\* slur_replacement: the match is split at its ties, all parts but the
\* first go between parentheses, then the parentheses move before dashes
slur_replacement(match) ==
    LET f == FirstTie(match)
        slur_content == SubSeq(match, 1, f - 1) \o << "(" >>
                        \o SelectSeq(SubSeq(match, f + 1, Len(match)),
                                     LAMBDA w : w # "~")
                        \o << ")" >>
    IN  MoveParens(slur_content, 1)

\* re.sub(combined_tie_pattern, slur_replacement, jianpu) from word i on
RECURSIVE SubTies(_, _)
SubTies(ws, i) ==
    IF i > Len(ws) THEN << >>
    ELSE IF TieMatch(ws, i)
    THEN slur_replacement(SubSeq(ws, i, MatchEnd(ws, i) - 1))
            \o SubTies(ws, MatchEnd(ws, i))
    ELSE << ws[i] >> \o SubTies(ws, i + 1)

convert_ties_to_slurs(ws) ==
    LET converted == SubTies(protect_ties_in_slurs(StripBars(ws)), 1)
    IN  [t \in DOMAIN converted |->
            IF converted[t] = "__TIE__" THEN "~" ELSE converted[t]]

\* line 1950: getLY converts the text of the glyph rendering
ConvertTies ==
    /\ mode = "lilypond"
    /\ \A r \in DOMAIN nm : ~midi(r)
    /\ inDat' = convert_ties_to_slurs(inDat)
    /\ mode' = "slurs"
    /\ UNCHANGED << nm, tok, has_lyrics, withStaff, body, opened, out, lastPtr,
                    registry, headerVars, unicode_approx, uText, nestVars,
                    spliceVars >>

InitSlur ==
    /\ nm = ("glyph" :> initOneScore)
    /\ tok = << "start" >>
    /\ has_lyrics = FALSE
    /\ withStaff = FALSE
    /\ body = << >>
    /\ opened = nm
    /\ out = << >>
    /\ lastPtr = 0
    /\ defines_done = { }
    /\ defs = << << >>, << >> >>
    /\ headers = << >>
    /\ declared = << >>
    /\ inDat \in SlurTexts
    /\ mode = "lilypond"
    /\ unicode_approx = << >>
    /\ uText = << >>
    /\ brackets = << >>
    /\ afternext = FALSE

NextSlur == ConvertTies

SpecSlur == InitSlur /\ [][NextSlur]_vars

\* the text is one run: notes joined by ties, each with its annotations and
\* dashes
IsRun(ws) ==
    /\ ws # << >>
    /\ ws[1] = "1" /\ ws[Len(ws)] # "~"
    /\ \A k \in DOMAIN ws : ws[k] \in { "1", "-", "~", "^" }
    /\ \E k \in DOMAIN ws : ws[k] = "~"
    /\ \A k \in DOMAIN ws : ws[k] = "~" => ws[k + 1] = "1"
    /\ \A k \in 2..Len(ws) : ws[k] = "1" => ws[k - 1] = "~"

\* the first dash of ws from word i on, Len(ws) + 1 if it has none before
\* word n
FirstDash(ws, i, n) ==
    IF \E k \in i..(n - 1) : ws[k] = "-"
    THEN CHOOSE k \in i..(n - 1) : ws[k] = "-" /\ \A j \in i..(k - 1) : ws[j] # "-"
    ELSE n

LastNote(ws) == CHOOSE k \in DOMAIN ws : ws[k] = "1" /\ \A j \in (k + 1)..Len(ws) : ws[j] # "1"

WithoutTies(ws) == SelectSeq(ws, LAMBDA w : w # "~")

\* the slur of a run: it opens after the first note and its annotations
\* and closes after the last note and its annotations
SlurOf(ws) ==
    LET f == FirstTie(ws)
        d == FirstDash(ws, 1, f)
        t == FirstDash(ws, LastNote(ws), Len(ws) + 1)
    IN  SubSeq(ws, 1, d - 1) \o << "(" >> \o SubSeq(ws, d, f - 1)
           \o WithoutTies(SubSeq(ws, f + 1, t - 1)) \o << ")" >>
           \o SubSeq(ws, t, Len(ws))

Converts == mode = "lilypond" /\ mode' = "slurs"

(***************************************************************************)
(* C31, as claimed: a run of tied notes becomes its first note, then the   *)
(* other notes within a slur, and the dashes and annotations at the end of *)
(* the run come before the closing mark of the slur: the closing mark is   *)
(* the last word.                                                          *)
(***************************************************************************)
C31_DashesBefore ==
    [][Converts /\ IsRun(inDat)
          => /\ inDat'[1] = "1"
             /\ WithoutTies(inDat') = inDat'
             /\ inDat'[Len(inDat')] = ")"]_vars

(***************************************************************************)
(* C31: a run of tied notes becomes its first note, then the other notes   *)
(* within a slur, without the ties.  The slur opens before the dashes of   *)
(* the first note, and the dashes and annotations at the end of the run    *)
(* come after the closing mark of the slur; the dashes of the notes in     *)
(* between stay where they are.  A text without a tie is left as it is.    *)
(***************************************************************************)
C31_Slur ==
    [][Converts
          => /\ IsRun(inDat) => inDat' = SlurOf(inDat)
             /\ ~HasWord(inDat, "~") => inDat' = inDat]_vars

\* "1 - ~ 1 -" has become "1 ( - 1 ) -"
C31_Witness ==
    /\ mode = "slurs"
    /\ inDat = << "1", "(", "-", "1", ")", "-" >>

(***************************************************************************)
(* SpecApprox: get_unicode_approx after its checks, reading notes with     *)
(* octave marks, beams and dots in bars of two crotchets, at most MaxText  *)
(* notes, up to its return.                                                *)
(***************************************************************************)
ApproxNotes ==
    { << "note", << "1" >>, 0, 0, << >>, "" >>,
      << "note", << "1" >>, 0, 0, << "'" >>, "" >>,
      << "note", << "1" >>, 0, 0, << "'", "'" >>, "" >>,
      << "note", << "1" >>, 0, 0, << ",", "," >>, "" >>,
      << "note", << "1" >>, 1, 0, << >>, "" >>,
      << "note", << "1" >>, 1, 1, << >>, "" >>,
      << "note", << "1" >>, 2, 0, << >>, "" >> }

\* getLY reads a note
UnicodeNote(Toks) ==
    /\ mode = "unicode"
    /\ Len(unicode_approx) < MaxText
    /\ \E t \in Toks : Step(t)
    /\ LET r == TheRendering
       IN  unicode_approx' =
              IF nm'[r].err = ""
              THEN Append(unicode_approx, UnicodeOf(nm[r], nm'[r], tok'))
              ELSE unicode_approx
    /\ UNCHANGED << body, opened, out, lastPtr, registry, headerVars, inDat, mode,
                    uText, nestVars, spliceVars >>

\* getLY reads the time signature at the head of the text
UnicodeTime(Sigs) ==
    /\ mode = "unicode"
    /\ tok = << "start" >>
    /\ TimeSig(Sigs, { << 0, FALSE >> })

InitApprox ==
    /\ nm = ("glyph" :> initOneScore)
    /\ tok = << "start" >>
    /\ has_lyrics = TRUE
    /\ withStaff = TRUE
    /\ body = << >>
    /\ opened = nm
    /\ out = << >>
    /\ lastPtr = 0
    /\ defines_done = { }
    /\ defs = << << >>, << >> >>
    /\ headers = << >>
    /\ declared = << >>
    /\ inDat = << >>
    /\ mode = "unicode"
    /\ unicode_approx = << >>
    /\ uText = << >>
    /\ brackets = << >>
    /\ afternext = FALSE

NextApprox ==
    \/ UnicodeTime({ << 2, 4 >> })
    \/ UnicodeNote(ApproxNotes)
    \/ UnicodeReturn

SpecApprox == InitApprox /\ [][NextApprox]_vars

\* the characters claimed for note t: the digit, a mark for each level of
\* its octave, the underline of its beams, and its dots underlined alike
ClaimedApprox(t) ==
    LET up == CountOf(OctaveOf(t), "'")
        down == CountOf(OctaveOf(t), ",")
        line == IF BeamsOf(t) = 1 THEN << "U+0332" >>
                ELSE IF BeamsOf(t) = 2 THEN << "U+0333" >> ELSE << >>
    IN  << "1" >> \o Copies(<< "U+0307" >>, up) \o Copies(<< "U+0323" >>, down)
           \o line \o Copies(<< "." >> \o line, DotsOf(t))

CountChar(cs, c) == Cardinality({ i \in DOMAIN cs : cs[i] = c })

(***************************************************************************)
(* C32: in Unicode mode a note adds its digit with one octave mark for     *)
(* each level of its octave (above when up, below when down), then the     *)
(* underline of its beams (single for one beam, double for two), then its  *)
(* dots with the same underline each; a note that completes a bar adds a   *)
(* light bar after these, any other note nothing or a blank.  In the       *)
(* string returned for a text that ends with a bar the last bar is heavy   *)
(* and is the only heavy one.                                              *)
(***************************************************************************)
C32_Approx ==
    [][/\ \A r \in DOMAIN nm :
             mode = "unicode" /\ IsNote(tok') /\ nm'[r].err = ""
                => LET new == unicode_approx'[Len(unicode_approx')]
                       c == ClaimedApprox(tok')
                   IN  IF nm'[r].barPos = FZero
                       THEN new = c \o << "U+2502" >>
                       ELSE new = c \/ new = c \o << " " >>
       /\ mode = "unicode" /\ mode' = "returned" /\ nm[TheRendering].barPos = FZero
             => /\ uText' # << >>
                /\ uText'[Len(uText')] = "U+2551"
                /\ CountChar(uText', "U+2551") = 1
                /\ CountChar(uText', "U+2502") = CountChar(Join(unicode_approx), "U+2502") - 1
                /\ Len(uText') = Len(Join(unicode_approx))]_vars

(***************************************************************************)
(* Time signatures whose bar is shorter than one unit, percent repeats and *)
(* tuplets: the two loops of the token loop whose exit depends on the      *)
(* state.                                                                  *)
(***************************************************************************)
\* "1/88" is a time signature to the token loop: its denominator is made of
\* the digits 1-4, 6 and 8
ShortBars == { << 1, 88 >> }

NextHalt ==
    \/ TimeSig(ShortBars, { << 0, FALSE >> })
    \/ Note({ << "1" >> }, { 0 }, { 0 }, { << >> }, { "" })
    \/ PercentOpenTok({ 2 })
    \/ RepeatCloseTok
    \/ TupletOpenTok({ 3 })
    \/ TupletCloseTok
    \/ EndOfScore

SpecHalt == Init /\ [][NextHalt]_vars

(***************************************************************************)
(* C33: processing a finite token sequence terminates, with output or with *)
(* an error: no close brace is reached in a state where its bar-position   *)
(* loop cannot leave (barPos below the saved barPos with a bar of length   *)
(* 0); the power-of-two search of a tuplet open leaves for every fit-count.*)
(***************************************************************************)
C33_Terminates == \A r \in DOMAIN nm : nm[r].err # "hang"

\* the time a word of the performance text takes, in 64ths of a semibreve:
\* 64 / length, and half as much again for each dot
DurationOf(w) ==
    IF Sounds(w) THEN F(64 * (2 * Pow2(w[4]) - 1), w[3] * Pow2(w[4])) ELSE FZero

RECURSIVE TotalDuration(_)
TotalDuration(ws) ==
    IF ws = << >> THEN FZero
    ELSE FAdd(DurationOf(Head(ws)), TotalDuration(Tail(ws)))

\* the sounding words of a text that are not plain or dotted crotchets
RECURSIVE OtherWords(_)
OtherWords(ws) ==
    IF ws = << >> THEN << >>
    ELSE IF Sounds(Head(ws)) /\ ~(Head(ws)[3] = 4 /\ Head(ws)[4] <= 1)
    THEN << Head(ws) >> \o OtherWords(Tail(ws))
    ELSE OtherWords(Tail(ws))

(***************************************************************************)
(* C34: the collapser preserves musical time: the notes and rests of its   *)
(* output take as long in total as those of its input, and the words that  *)
(* are not plain or dotted crotchets are all still there, so only          *)
(* crotchets have been merged.                                             *)
(***************************************************************************)
C34_PreservesTime ==
    [][(tok'[1] = "end" /\ nm'[TheRendering].err = "ok")
        => /\ TotalDuration(out') = TotalDuration(out)
           /\ Len(OtherWords(out')) >= Len(OtherWords(out))]_vars

(***************************************************************************)
(* SpecBrace: the braces that the token loop puts out for tuplets, repeats *)
(* and alternatives.  brackets holds them in the order of the output: "["  *)
(* for the brace of "\times n/m {", "]" for the brace of a close bracket,  *)
(* "{" and "}" for those of repeats and alternatives.                      *)
(***************************************************************************)
\* what the branch of the token appends to out, reduced to its braces
BracesOf(self, t) ==
    CASE Kind(t) = "[" -> << "[" >>
      [] Kind(t) = "]" -> << "]" >>
      [] Kind(t) \in { "R{", "R%{" } -> << "{" >>
      [] Kind(t) = "A{" -> << "{", "{" >>
      [] Kind(t) = "}" /\ self.repeatStack # << >> ->
            [i \in 1..Top(self.repeatStack)[1] |-> "}"]
      [] Kind(t) = "|" /\ self.repeatStack # << >> /\ Top(self.repeatStack)[1] = 2 ->
            << "}", "{" >>
      [] OTHER -> << >>

BraceTok(t) ==
    /\ Len(brackets) < MaxOut
    /\ Step(t)
    /\ brackets' = IF nm'[TheRendering].err = ""
                   THEN brackets \o BracesOf(nm[TheRendering], t) ELSE brackets
    /\ UNCHANGED << body, opened, out, lastPtr, registry, headerVars, unicodeVars, spliceVars >>

BraceTokens ==
    { << "[", 3 >>, << "]" >>, << "R{" >>, << "A{" >>, << "}" >>, << "|" >> }

NextBrace ==
    \/ Note({ << "1" >> }, { 0 }, { 0 }, { << >> }, { "" })
    \/ \E t \in BraceTokens : (Kind(t) \in Opens => CanOpen) /\ BraceTok(t)
    \/ EndOfScore

SpecBrace == Init /\ [][NextBrace]_vars

\* the braces of ws among opening and closing, opening ones counting +1
RECURSIVE DepthOf(_, _, _)
DepthOf(ws, opening, closing) ==
    IF ws = << >> THEN 0
    ELSE DepthOf(SubSeq(ws, 1, Len(ws) - 1), opening, closing)
         + (IF ws[Len(ws)] \in opening THEN 1
            ELSE IF ws[Len(ws)] \in closing THEN -1 ELSE 0)

\* no closing brace without an open one, and none left open
Balanced(ws, opening, closing) ==
    /\ \A n \in 1..Len(ws) : DepthOf(SubSeq(ws, 1, n), opening, closing) >= 0
    /\ DepthOf(ws, opening, closing) = 0

(***************************************************************************)
(* C35: when a score has been processed to its end without error, every    *)
(* tuplet bracket has been closed and no close bracket came without an     *)
(* open one, the ratio is 1:1, and the braces put out for tuplets, repeats *)
(* and alternatives are balanced.                                          *)
(***************************************************************************)
C35_Balanced ==
    \A r \in DOMAIN nm :
        nm[r].err = "ok" =>
            /\ Balanced(brackets, { "[" }, { "]" })
            /\ nm[r].tuplet = << 1, 1 >>
            /\ Balanced(brackets, { "[", "{" }, { "]", "}" })

(***************************************************************************)
(* SpecMark: the beam-group markers "[" and "]" that the display rendering *)
(* puts into its text.  brackets holds the markers put out so far with     *)
(* every "[" "]" pair that has come together taken out: it is empty when   *)
(* no group is textually open, << "[" >> when one is, and anything else    *)
(* when a marker came out of turn.                                         *)
(***************************************************************************)
\* the markers of one call of the note handler, in the order of the text:
\* the "] " returned for the end of the note before (aftrlast0), the "["
\* of a beamed note with no group open, and the "]" of the beat boundary
\* or of the rest hack after the note.  self is the state before the call,
\* after the state it leaves (nBeams is what it stored in lastNBeams).
MarksOf(self, after, r) ==
    LET nBeams == after.lastNBeams
        grp1 == IF nBeams = 0 /\ self.inBeamGroup # 0 THEN 0 ELSE self.inBeamGroup
        opens == /\ nBeams # 0
                 /\ (grp1 = 0 \/ grp1 = restHack \/ after.inRestHack)
                 /\ ~midi(r) /\ ~western(r)
        grp2 == IF opens THEN 1 ELSE grp1
        pos == FAdd(self.barPos, after.toAdd)
        closes == \/ FMod(pos, self.beatLength) = FZero /\ grp2 # 0
                  \/ after.inRestHack /\ grp2 # 0
    IN  (IF after.aftrlast0 THEN << "]" >> ELSE << >>)
        \o (IF opens THEN << "[" >> ELSE << >>)
        \o (IF closes THEN << "]" >> ELSE << >>)

\* final checks that leave a group open at the end of the score
finalBeamClose_Never(self, r) == FALSE

\* the final checks add "]" to the last note when a group is still open
finalBeamClose(self, r) ==
    self.inBeamGroup # 0 /\ ~midi(r) /\ ~western(r) /\ self.inBeamGroup # restHack

\* the markers ms after the markers ws, pairs taken out
RECURSIVE Paired(_, _)
Paired(ws, ms) ==
    IF ms = << >> THEN ws
    ELSE IF Head(ms) = "]" /\ ws # << >> /\ ws[Len(ws)] = "["
    THEN Paired(SubSeq(ws, 1, Len(ws) - 1), Tail(ms))
    ELSE Paired(Append(ws, Head(ms)), Tail(ms))

MarkNote(Figs, Beams) ==
    /\ \E f \in Figs, b \in Beams : Step(<< "note", f, b, 0, << >>, "" >>)
    /\ LET r == TheRendering
       IN  brackets' = IF nm'[r].err = ""
                       THEN Paired(brackets, MarksOf(nm[r], nm'[r], r))
                       ELSE brackets
    /\ UNCHANGED << body, opened, out, lastPtr, registry, headerVars, unicodeVars, spliceVars >>

MarkTime(Sigs) ==
    /\ tok = << "start" >>
    /\ \E ts \in Sigs : Step(<< "time", ts[1], ts[2], 0, FALSE >>)
    /\ UNCHANGED << body, opened, out, lastPtr, others >>

MarkEnd ==
    /\ \E sl \in BOOLEAN : Step(<< "end", sl >>)
    /\ LET r == TheRendering
       IN  brackets' = IF nm'[r].err = "ok" /\ finalBeamClose(nm[r], r)
                       THEN Paired(brackets, << "]" >>)
                       ELSE brackets
    /\ UNCHANGED << body, opened, out, lastPtr, registry, headerVars, unicodeVars, spliceVars >>

NextMark ==
    \/ MarkTime({ << 5, 8 >>, << 6, 8 >> })
    \/ MarkNote({ << "1" >>, << "0" >> }, 0..2)
    \/ MarkEnd

SpecMark == InitRest /\ [][NextMark]_vars

(***************************************************************************)
(* C36: the beam-group markers of the display rendering are well formed:   *)
(* no "[" is put out while a group is textually open and no "]" while none *)
(* is, and when the score has ended without error every "[" has been       *)
(* matched by one "]", the one of the final checks included.               *)
(***************************************************************************)
C36_WellFormed ==
    /\ brackets \in { << >>, << "[" >> }
    /\ \A r \in DOMAIN nm : nm[r].err = "ok" => brackets = << >>

\* a score has ended on an incomplete beat with its group open, and the
\* final checks have closed it
C36_Witness ==
    \E r \in DOMAIN nm :
        /\ r = "glyph"
        /\ nm[r].err = "ok"
        /\ nm[r].inBeamGroup = 1
        /\ nm[r].lastNBeams = 2
        /\ has_lyrics
        /\ brackets = << >>

(***************************************************************************)
(* C37: in the display rendering no beam group spans a bar line: when a    *)
(* note completes a bar (barPos goes back to 0 and the bar number goes     *)
(* up), no group is open in the state it leaves, whatever the time         *)
(* signature.                                                              *)
(***************************************************************************)
C37_ClosedAtBarline ==
    [][\A r \in DOMAIN nm :
          (/\ r = "glyph"
           /\ IsNote(tok')
           /\ nm'[r].err = ""
           /\ nm'[r].barNo = nm[r].barNo + 1
           /\ nm'[r].barPos = FZero)
          => nm'[r].inBeamGroup # 1]_vars

(***************************************************************************)
(* SpecEmpty: crotchets in repeats, percent repeats and alternatives under *)
(* two time signatures, with the words put out: lastPtr is 0 until a note  *)
(* has been processed.                                                     *)
(***************************************************************************)
NextEmpty ==
    \/ TimeSig({ << 2, 4 >> }, { << 0, FALSE >> })
    \/ EmitNote({ << "1" >> }, { 0 }, { 0 }, { << >> }, { "" })
    \/ RepeatOpenTok
    \/ PercentOpenTok({ 2, 4 })
    \/ AltOpenTok
    \/ RepeatCloseTok
    \/ BarTok
    \/ EndOfScore

SpecEmpty == Init /\ [][NextEmpty]_vars

(***************************************************************************)
(* C38: "No jianpu in score" is raised only for a score of which no note   *)
(* has been processed; a score with a note never fails with it, whatever   *)
(* repeats, alternatives and time signatures it holds.                     *)
(***************************************************************************)
C38_OnlyWithoutNotes ==
    \A r \in DOMAIN nm :
        nm[r].err = "No jianpu in score" => lastPtr = 0 /\ out = << >>

(***************************************************************************)
(* SpecParse: parseNote on one word of the score text, a sequence of       *)
(* characters, and the call of the note handler with what it returns.      *)
(***************************************************************************)
\* the characters that a note may hold: [0-7.,'cqsdh\\#b-]
NoteChars ==
    { "0", "1", "2", "3", "4", "5", "6", "7", ".", ",", "'",
      "c", "q", "s", "d", "h", "\\", "#", "b", "-" }

FigureChars == { "0", "1", "2", "3", "4", "5", "6", "7", "-" }

BeamChars == { "c", "q", "s", "d", "h", "\\" }

\* list("cqsdh").index(letter)
BeamIndex(letter) ==
    CASE letter = "c" -> 0 [] letter = "q" -> 1 [] letter = "s" -> 2
      [] letter = "d" -> 3 [] letter = "h" -> 4

\* word.replace("8", "1'").replace("9", "2'")
RECURSIVE HighFigures(_)
HighFigures(word) ==
    IF word = << >> THEN << >>
    ELSE (CASE Head(word) = "8" -> << "1", "'" >>
            [] Head(word) = "9" -> << "2", "'" >>
            [] OTHER -> << Head(word) >>) \o HighFigures(Tail(word))

\* the characters of word that are in the set chars, in their order
RECURSIVE Only(_, _)
Only(word, chars) ==
    IF word = << >> THEN << >>
    ELSE (IF Head(word) \in chars THEN << Head(word) >> ELSE << >>)
         \o Only(Tail(word), chars)

\* parseNote on a word without "///" and with one accidental at most: the
\* note token of the word, or the message of its scoreError
parseNote(word) ==
    LET w == HighFigures(IF word = << "." >> THEN << "-" >> ELSE word)
        figures == Only(w, FigureChars)
        dots == Len(Only(w, { "." }))
        letters == Only(w, BeamChars)
        octave == Only(w, { "'", "," })
        sign == Only(w, { "#", "b" })
        accidental == IF sign = << >> THEN "" ELSE sign[1]
    IN  IF \E i \in 1..Len(w) : w[i] \notin NoteChars
        THEN << "error", "Unrecognised command" >>
        ELSE IF letters # << >> /\ \A i \in 1..Len(letters) : letters[i] = "\\"
        THEN << "note", figures, Len(letters), dots, octave, accidental >>
        ELSE IF Len(letters) > 1
        THEN << "error", "Can't calculate number of beams" >>
        ELSE IF Len(letters) = 1
        THEN << "note", figures, BeamIndex(letters[1]), dots, octave, accidental >>
        ELSE << "note", figures, None, dots, octave, accidental >>

\* the characters the words are made of ("x" is no character of a note)
ParseChars == { "1", "-", "q", "s", ".", "'", "x" }

ParseWords == UNION { [1..n -> ParseChars] : n \in 1..MaxText }

\* process_note on the word: parseNote, then the note handler
ParseWord ==
    /\ tok = << "start" >>
    /\ LET p == parseNote(inDat)
       IN  IF p[1] = "error"
           THEN /\ nm' = [r \in DOMAIN nm |-> errExit(nm[r], p[2])]
                /\ tok' = << "word" >>
                /\ UNCHANGED << has_lyrics, withStaff >>
           ELSE Step(p)
    /\ UNCHANGED << body, opened, out, lastPtr, others >>

InitParse ==
    /\ \E r \in Renderings : nm = (r :> initOneScore)
    /\ tok = << "start" >>
    /\ has_lyrics = FALSE
    /\ withStaff = FALSE
    /\ body = << >>
    /\ opened = nm
    /\ out = << >>
    /\ lastPtr = 0
    /\ defines_done = { }
    /\ defs = << << >>, << >> >>
    /\ headers = << >>
    /\ declared = << >>
    /\ inDat \in ParseWords
    /\ mode = "lilypond"
    /\ unicode_approx = << >>
    /\ uText = << >>
    /\ brackets = << >>
    /\ afternext = FALSE

NextParse ==
    \/ ParseWord
    \/ EndOfScore

SpecParse == InitParse /\ [][NextParse]_vars

(***************************************************************************)
(* C39: every word that parseNote accepts gives a note with at least one   *)
(* figure (a digit 0-7 or a dash): the note handler is never called with   *)
(* empty figures.                                                          *)
(***************************************************************************)
C39_HasFigures == [][IsNote(tok') => FiguresOf(tok') # << >>]_vars
====
